---------------------------- MODULE Spec2Model ----------------------------
(***************************************************************************)
(* A model of the audit pipeline of ton-audit-ai (src/src/auditor.ts):     *)
(* auditContract aggregates the model's text stream, locates the JSON      *)
(* payload in it, repairs it in stages, parses it, and assembles the       *)
(* AuditReport.                                                            *)
(*                                                                         *)
(* Text is a sequence of UTF-16 code units, as a JavaScript string is.  A   *)
(* code unit in 0x20-0x7E but 0x60, and each of 0x09, 0x0A and 0x0D, is    *)
(* the TLA+ string of that one character; any other code unit is the atom  *)
(* "U+XXXX" of its four hexadecimal digits (CodeUnit).                     *)
(* A JavaScript value is a record tagged by t: undefined, null, bool, the  *)
(* Numbers num, dec, inf and nan, str (v a text), arr (v a sequence of     *)
(* values), obj (v a sequence of [k, v] properties in property order).     *)
(***************************************************************************)
EXTENDS Integers, Sequences, FiniteSets, TLC

(***************************************************************************)
(* Characters                                                              *)
(***************************************************************************)
\* The characters 0x20-0x7E, in the order of their codes (0x60, which a
\* TLA+ string cannot hold, as its atom).
PrintableAscii ==
  <<" ", "!", "\"", "#", "$", "%", "&", "'", "(", ")", "*", "+", ",", "-",
    ".", "/", "0", "1", "2", "3", "4", "5", "6", "7", "8", "9", ":", ";",
    "<", "=", ">", "?", "@", "A", "B", "C", "D", "E", "F", "G", "H", "I",
    "J", "K", "L", "M", "N", "O", "P", "Q", "R", "S", "T", "U", "V", "W",
    "X", "Y", "Z", "[", "\\", "]", "^", "_", "U+0060", "a", "b", "c", "d", "e",
    "f", "g", "h", "i", "j", "k", "l", "m", "n", "o", "p", "q", "r", "s",
    "t", "u", "v", "w", "x", "y", "z", "{", "|", "}", "~">>

HexDigitChars ==
  <<"0", "1", "2", "3", "4", "5", "6", "7", "8", "9", "A", "B", "C", "D",
    "E", "F">>

\* The character whose UTF-16 code unit is n.
CodeUnit(n) ==
  CASE n = 9  -> "\t"
    [] n = 10 -> "\n"
    [] n = 13 -> "\r"
    [] n >= 32 /\ n <= 126 -> PrintableAscii[n - 31]
    [] OTHER -> "U+" \o HexDigitChars[(n \div 4096) + 1]
                     \o HexDigitChars[((n \div 256) % 16) + 1]
                     \o HexDigitChars[((n \div 16) % 16) + 1]
                     \o HexDigitChars[(n % 16) + 1]

LF  == "\n"
CR  == "\r"
TAB == "\t"
SOH == "U+0001"
BS  == "U+0008"
FF  == "U+000C"
DEL == "U+007F"
QUOTE == "\""
BACKSLASH == "\\"

\* The characters in the range 0x00-0x1F.
C0Controls == {CodeUnit(n) : n \in 0..31}

\* JSON's insignificant whitespace.
JsonWhitespace == {" ", "\n", "\r", "\t"}

\* The ECMAScript LineTerminator characters: what the regular expression
\* atom "." does not match.
LineTerminators == {CodeUnit(n) : n \in {10, 13, 8232, 8233}}

\* The ECMAScript WhiteSpace and LineTerminator characters
\* (String.prototype.trim, StringToNumber, the regular expression atom \s):
\* TAB, VT, FF, SP, NBSP, ZWNBSP and the space separators of Unicode.
JsWhitespace ==
  {CodeUnit(n) : n \in {9, 10, 11, 12, 13, 32, 160, 5760, 8232, 8233, 8239,
                         8287, 12288, 65279} \cup (8192..8202)}

Digits == {"0", "1", "2", "3", "4", "5", "6", "7", "8", "9"}

DigitValue(c) ==
  CASE c = "0" -> 0 [] c = "1" -> 1 [] c = "2" -> 2 [] c = "3" -> 3
    [] c = "4" -> 4 [] c = "5" -> 5 [] c = "6" -> 6 [] c = "7" -> 7
    [] c = "8" -> 8 [] c = "9" -> 9

DigitChar(d) == <<"0", "1", "2", "3", "4", "5", "6", "7", "8", "9">>[d + 1]

(***************************************************************************)
(* Text helpers (String.prototype methods)                                 *)
(***************************************************************************)
Min(a, b) == IF a < b THEN a ELSE b
Max(a, b) == IF a > b THEN a ELSE b

\* s.slice(0, n)
SlicePrefix(s, n) == SubSeq(s, 1, Min(n, Len(s)))

\* s.includes(w)
Includes(s, w) ==
  \E i \in 1..(Len(s) - Len(w) + 1) : SubSeq(s, i, i + Len(w) - 1) = w

\* s.endsWith(w)
EndsWith(s, w) ==
  Len(w) <= Len(s) /\ SubSeq(s, Len(s) - Len(w) + 1, Len(s)) = w

\* s.trim().length > 0
NonBlank(s) == \E i \in 1..Len(s) : s[i] \notin JsWhitespace

RECURSIVE Flatten(_)
\* The concatenation of the sequences of ss, by halves.
Flatten(ss) ==
  IF Len(ss) = 0 THEN <<>>
  ELSE IF Len(ss) = 1 THEN ss[1]
  ELSE LET h == Len(ss) \div 2
       IN  Flatten(SubSeq(ss, 1, h)) \o Flatten(SubSeq(ss, h + 1, Len(ss)))

RECURSIVE SplitLines(_)
\* s.split("\n")
SplitLines(s) ==
  IF \A i \in 1..Len(s) : s[i] # LF
  THEN <<s>>
  ELSE LET i == CHOOSE k \in 1..Len(s) :
                  s[k] = LF /\ \A j \in 1..(k - 1) : s[j] # LF
       IN  <<SubSeq(s, 1, i - 1)>> \o SplitLines(SubSeq(s, i + 1, Len(s)))

RECURSIVE ToDigits(_)
\* String(n) for an integer n >= 0
ToDigits(n) ==
  IF n < 10 THEN <<DigitChar(n)>>
  ELSE ToDigits(n \div 10) \o <<DigitChar(n % 10)>>

RECURSIVE PadStart(_, _, _)
\* s.padStart(w, c)
PadStart(s, w, c) == IF Len(s) >= w THEN s ELSE PadStart(<<c>> \o s, w, c)


(***************************************************************************)
(* JavaScript values                                                       *)
(***************************************************************************)
Undefined == [t |-> "undefined"]
Null      == [t |-> "null"]
NaN       == [t |-> "nan"]
Bool(b)   == [t |-> "bool", v |-> b]
Num(n)    == [t |-> "num", v |-> n]
Str(s)    == [t |-> "str", v |-> s]
Arr(a)    == [t |-> "arr", v |-> a]
Obj(p)    == [t |-> "obj", v |-> p]

\* ToBoolean: what the operator || tests.  Of the Numbers +0, -0 (both
\* Num(0)) and NaN are false.
Truthy(x) ==
  CASE x.t \in {"undefined", "null", "nan"} -> FALSE
    [] x.t = "bool" -> x.v
    [] x.t = "num"  -> x.v # 0
    [] x.t = "str"  -> Len(x.v) > 0
    [] OTHER        -> TRUE

\* a || b
OrElse(a, b) == IF Truthy(a) THEN a ELSE b

RECURSIVE DigitsValue(_)
\* The number a text of at most nine decimal digits denotes.
DigitsValue(s) ==
  IF Len(s) = 0 THEN 0
  ELSE 10 * DigitsValue(SubSeq(s, 1, Len(s) - 1)) + DigitValue(s[Len(s)])

(***************************************************************************)
(* Numbers                                                                 *)
(*                                                                         *)
(* A Number is an IEEE 754 binary64 value.  It is held as                  *)
(*   Num(n)       an integer n of at most nine digits (-0 is Num(0)),      *)
(*   Dec(neg, digits, point)                                               *)
(*                any other finite value, (-1)^neg * 0.d1...dk * 10^point, *)
(*                d1...dk the digits Number::toString gives it: the        *)
(*                shortest that denote no other binary64 value,            *)
(*   Inf(neg)     +Infinity or -Infinity,                                  *)
(*   NaN.                                                                  *)
(* Arithmetic is exact decimal arithmetic on digit sequences (TLC's        *)
(* integers have 32 bits), rounded to binary64, ties to even.  A decimal   *)
(* is [ds, pt]: the value 0.ds[1]...ds[n] * 10^pt, zero with no digit.     *)
(***************************************************************************)
Dec(neg, digits, point) ==
  [t |-> "dec", neg |-> neg, digits |-> digits, point |-> point]
Inf(neg) == [t |-> "inf", neg |-> neg]

Decimal(ds, pt) == [ds |-> ds, pt |-> pt]

\* Without its leading and trailing zeros.
Trimmed(x) ==
  LET n == Len(x.ds)
  IN  IF \A i \in 1..n : x.ds[i] = 0 THEN Decimal(<<>>, 0)
      ELSE LET a == CHOOSE i \in 1..n :
                      x.ds[i] # 0 /\ \A j \in 1..(i - 1) : x.ds[j] = 0
               b == CHOOSE i \in 1..n :
                      x.ds[n + 1 - i] # 0 /\ \A j \in 1..(i - 1) : x.ds[n + 1 - j] = 0
           IN  Decimal(SubSeq(x.ds, a, n + 1 - b), x.pt - (a - 1))

\* Lexicographic order of digit sequences; a proper prefix comes first.
SeqBefore(a, b) ==
  \E i \in 1..Len(b) :
    /\ i <= Len(a) + 1
    /\ \A j \in 1..(i - 1) : a[j] = b[j]
    /\ IF i = Len(a) + 1 THEN TRUE ELSE a[i] < b[i]

\* x < y for trimmed decimals.
DecimalLess(x, y) ==
  IF Len(y.ds) = 0 THEN FALSE
  ELSE IF Len(x.ds) = 0 THEN TRUE
  ELSE x.pt < y.pt \/ (x.pt = y.pt /\ SeqBefore(x.ds, y.ds))

\* 2 * x: a digit's carry depends on the next digit only.
Twice(x) ==
  LET in == <<0>> \o x.ds
      n  == Len(in)
  IN  Trimmed(Decimal([i \in 1..n |->
                         ((2 * in[i]) % 10)
                           + (IF i < n /\ in[i + 1] >= 5 THEN 1 ELSE 0)],
                      x.pt + 1))

\* x / 2: a digit's remainder goes to the next digit only.
Half(x) ==
  LET in == x.ds \o <<0>>
  IN  Trimmed(Decimal([i \in 1..Len(in) |->
                         (in[i] + (IF i > 1 /\ in[i - 1] % 2 = 1 THEN 10 ELSE 0))
                           \div 2],
                      x.pt))

RECURSIVE TimesPowerOfTwo(_, _)
\* x * 2^n, by halves of n.
TimesPowerOfTwo(x, n) ==
  IF Len(x.ds) = 0 \/ n = 0 THEN x
  ELSE IF n = 1 THEN Twice(x)
  ELSE IF n = -1 THEN Half(x)
  ELSE TimesPowerOfTwo(TimesPowerOfTwo(x, n \div 2), n - (n \div 2))

\* 2^52 and 2^53, the bounds of a normalized significand.
TwoTo52 == Decimal(<<4, 5, 0, 3, 5, 9, 9, 6, 2, 7, 3, 7, 0, 4, 9, 6>>, 16)
TwoTo53 == Decimal(<<9, 0, 0, 7, 1, 9, 9, 2, 5, 4, 7, 4, 0, 9, 9, 2>>, 16)

RECURSIVE Normalized(_, _)
\* [w, e] of the same value w * 2^e, with 2^52 <= w < 2^53, or with
\* e = -1074, the least exponent of binary64, and w < 2^52.
Normalized(w, e) ==
  IF ~DecimalLess(w, TwoTo53) THEN Normalized(Half(w), e + 1)
  ELSE IF e > -1074 /\ DecimalLess(w, TwoTo52) THEN Normalized(Twice(w), e - 1)
  ELSE [w |-> w, e |-> e]

\* Normalized from a first exponent near log2(x) - 52: 10^(x.pt - 1) <= x
\* and log2(10) is 3.3219...
Scaled(x) ==
  LET e == Max((((x.pt - 1) * 33219) \div 10000) - 52, -1074)
  IN  Normalized(TimesPowerOfTwo(x, 0 - e), e)

\* n + 1 for the digits of a natural number n.
Successor(ds) ==
  IF \A i \in 1..Len(ds) : ds[i] = 9
  THEN <<1>> \o [i \in 1..Len(ds) |-> 0]
  ELSE LET j == CHOOSE i \in 1..Len(ds) :
                  ds[i] # 9 /\ \A k \in (i + 1)..Len(ds) : ds[k] = 9
       IN  [i \in 1..Len(ds) |->
              IF i < j THEN ds[i] ELSE IF i = j THEN ds[i] + 1 ELSE 0]

\* The integer nearest to w, ties to even: its digits.
RoundedToEven(w) ==
  LET whole == IF w.pt <= 0 THEN <<>>
               ELSE [i \in 1..w.pt |-> IF i <= Len(w.ds) THEN w.ds[i] ELSE 0]
      first == IF w.pt >= 0 /\ w.pt + 1 <= Len(w.ds) THEN w.ds[w.pt + 1] ELSE 0
      more  == IF w.pt >= 0 THEN Len(w.ds) > w.pt + 1 ELSE Len(w.ds) > 0
      odd   == Len(whole) > 0 /\ whole[Len(whole)] % 2 = 1
      up    == first > 5 \/ (first = 5 /\ (more \/ odd))
  IN  IF up THEN Successor(whole) ELSE whole

\* The binary64 value of the significand digits m, rounded from a value
\* scaled to the exponent e: a significand that rounding took to 2^53 is
\* 2^52 with the next exponent, and an exponent above 971 overflows.
Rounded64(m, e) ==
  IF Len(m) = 0 THEN [kind |-> "zero"]
  ELSE IF m = TwoTo53.ds
       THEN IF e + 1 > 971 THEN [kind |-> "inf"]
            ELSE [kind |-> "finite", m |-> TwoTo52.ds, e |-> e + 1]
  ELSE IF e > 971 THEN [kind |-> "inf"]
  ELSE [kind |-> "finite", m |-> m, e |-> e]

Binary64Of(s) == Rounded64(RoundedToEven(s.w), s.e)

\* The binary64 value nearest to the decimal x > 0, ties to even: the
\* significand m (digits of a natural number) and exponent e of m * 2^e,
\* or an overflow to infinity, or an underflow to zero.
ToBinary64(x) == Binary64Of(Scaled(x))

\* The decimal a finite binary64 value is exactly.
ExactDecimal(b) == TimesPowerOfTwo(Decimal(b.m, Len(b.m)), b.e)

\* The first k digits of x, and the next decimal of k digits above them.
DigitsBelow(x, k) == Trimmed(Decimal(SubSeq(x.ds, 1, k), x.pt))
DigitsOver(x, k, next) == Trimmed(Decimal(next, x.pt + (Len(next) - k)))
DigitsAbove(x, k) == DigitsOver(x, k, Successor(SubSeq(x.ds, 1, k)))

\* Those of the two decimals of k digits around x that denote the binary64
\* value b.
Denoting(b, x, k) ==
  {d \in {DigitsBelow(x, k), DigitsAbove(x, k)} : ToBinary64(d) = b}

\* Whether x is nearer to the decimal of k digits above it than to the one
\* below, or as near with an odd k-th digit.
NearerAbove(x, k) ==
  \/ x.ds[k + 1] > 5
  \/ x.ds[k + 1] = 5 /\ (Len(x.ds) > k + 1 \/ x.ds[k] % 2 = 1)

\* The decimal of k digits for x, of those in the set ok.
ShortestAt(x, k, ok) ==
  IF Len(x.ds) <= k THEN x
  ELSE IF Cardinality(ok) = 2
       THEN (IF NearerAbove(x, k) THEN DigitsAbove(x, k) ELSE DigitsBelow(x, k))
  ELSE CHOOSE d \in ok : TRUE

\* With denoting[k] the decimals of k digits that denote the value: the
\* decimal of the least number of digits that has one.
ShortestIn(x, denoting, k) ==
  ShortestAt(x, k, IF k \in DOMAIN denoting THEN denoting[k] ELSE {})

ShortestOf(x, denoting) ==
  ShortestIn(x, denoting,
             1 + Cardinality({k \in 1..Min(16, Len(x.ds) - 1) : denoting[k] = {}}))

\* Number::toString, step 5: the digits of the least number k of digits
\* that denote the binary64 value b, whose exact decimal is x, and no other;
\* of two such texts of k digits the one nearer to x, and the even one if
\* they are as near.  Seventeen digits always do, and k digits do if fewer
\* do.
Shortest(b, x) ==
  ShortestOf(x, [k \in 1..Min(17, Len(x.ds) - 1) |-> Denoting(b, x, k)])

Power10(n) == <<1, 10, 100, 1000, 10000, 100000, 1000000, 10000000,
                100000000>>[n + 1]

\* The Number whose digits and sign are given: an integer of at most nine
\* digits as Num, any other value as Dec.
Canonical(neg, x) ==
  IF Len(x.ds) <= x.pt /\ x.pt <= 9
  THEN LET mag == DigitsValue([i \in 1..Len(x.ds) |-> DigitChar(x.ds[i])])
                    * Power10(x.pt - Len(x.ds))
       IN  Num(IF neg THEN 0 - mag ELSE mag)
  ELSE Dec(neg, [i \in 1..Len(x.ds) |-> DigitChar(x.ds[i])], x.pt)

\* The Number that is the binary64 value b, negated if neg.
FromBinary64(neg, b) ==
  CASE b.kind = "zero" -> Num(0)
    [] b.kind = "inf"  -> Inf(neg)
    [] OTHER -> Canonical(neg, Shortest(b, ExactDecimal(b)))

\* RoundedNumber for a trimmed decimal x.
RoundedTrimmed(neg, x) ==
  IF Len(x.ds) = 0 THEN Num(0)
  ELSE IF x.pt > 400 THEN Inf(neg)
  ELSE IF x.pt < -400 THEN Num(0)
  ELSE IF Len(x.ds) <= 15 /\ x.pt >= -290 /\ x.pt <= 300
       THEN Canonical(neg, x)
  ELSE FromBinary64(neg, ToBinary64(x))

\* The Number nearest to the decimal x >= 0, negated if neg.  A decimal of
\* at most 15 digits well inside the range of the normalized values is the
\* shortest text of the binary64 value nearest to it.
RoundedNumber(neg, x0) == RoundedTrimmed(neg, Trimmed(x0))

\* The Number nearest to (-1)^neg * 0.digits * 10^point, digits a text.
Finite(neg, digits, point) ==
  RoundedNumber(neg, Decimal([i \in 1..Len(digits) |-> DigitValue(digits[i])],
                             point))

IsNegative(v) ==
  CASE v.t = "num" -> v.v < 0
    [] v.t \in {"dec", "inf"} -> v.neg

Power5(n) == <<1, 5, 25, 125, 625, 3125, 15625, 78125, 390625, 1953125>>[n + 1]

\* The decimal of the digits that show the finite Number v, without sign.
Shown(v) ==
  IF v.t = "num"
  THEN LET ds == ToDigits(IF v.v < 0 THEN 0 - v.v ELSE v.v)
       IN  Trimmed(Decimal([i \in 1..Len(ds) |-> DigitValue(ds[i])], Len(ds)))
  ELSE Decimal([i \in 1..Len(v.digits) |-> DigitValue(v.digits[i])], v.point)

\* Whether the f-th power of 5 divides the number of the digits ds.
DividesByPower5(ds, f) == DigitsValue(ds) % Power5(f) = 0

\* Magnitude for the Number v shown as the decimal x.
ExactOf(v, x) ==
  IF v.t = "num" THEN x
  ELSE IF Len(x.ds) <= x.pt /\ x.pt <= 15 THEN x
  ELSE IF /\ Len(x.ds) <= 9 /\ Len(x.ds) > x.pt /\ Len(x.ds) - x.pt <= 9
          /\ DividesByPower5(v.digits, Len(x.ds) - x.pt)
       THEN x
  ELSE ExactDecimal(ToBinary64(x))

\* The decimal |v| is exactly, for a finite Number v.  The digits that
\* show v are its exact value where they are an integer below 10^15 or,
\* being at most nine digits with f <= 9 of them after the point, an
\* integer multiple of 2^-f; the exact value of any other Number is that
\* of the binary64 value its digits round to.
Magnitude(v) == ExactOf(v, Shown(v))

\* The digit of x at the decimal place i places below the place hi.
PlaceDigit(x, hi, i) ==
  LET j == i - (hi - x.pt)
  IN  IF j >= 1 /\ j <= Len(x.ds) THEN x.ds[j] ELSE 0

\* x + y
DecimalSum(x, y) ==
  LET hi   == Max(x.pt, y.pt) + 1
      lo   == Min(x.pt - Len(x.ds), y.pt - Len(y.ds))
      n    == hi - lo
      s(i) == PlaceDigit(x, hi, i) + PlaceDigit(y, hi, i)
      carry(i) == \E j \in (i + 1)..n :
                    s(j) >= 10 /\ \A l \in (i + 1)..(j - 1) : s(l) = 9
  IN  Trimmed(Decimal([i \in 1..n |->
                         (s(i) + (IF carry(i) THEN 1 ELSE 0)) % 10], hi))

\* x - y for x >= y
DecimalDifference(x, y) ==
  LET hi   == Max(x.pt, y.pt)
      lo   == Min(x.pt - Len(x.ds), y.pt - Len(y.ds))
      n    == hi - lo
      a(i) == PlaceDigit(x, hi, i)
      b(i) == PlaceDigit(y, hi, i)
      borrow(i) == \E j \in (i + 1)..n :
                     a(j) < b(j) /\ \A l \in (i + 1)..(j - 1) : a(l) = b(l)
  IN  Trimmed(Decimal([i \in 1..n |->
                         (a(i) - b(i) - (IF borrow(i) THEN 1 ELSE 0) + 10) % 10],
                      hi))

\* x < y for Numbers x and y.  The digits that show two binary64 values
\* stand in the order of the values.
NumberLess(x, y) ==
  LET below(a, b) == \* |a| < |b|
        IF a.t = "inf" THEN FALSE
        ELSE IF b.t = "inf" THEN TRUE
        ELSE IF a.t = "num" /\ b.t = "num"
             THEN (IF a.v < 0 THEN 0 - a.v ELSE a.v) < (IF b.v < 0 THEN 0 - b.v ELSE b.v)
        ELSE DecimalLess(Shown(a), Shown(b))
  IN  IF IsNegative(x)
      THEN (IF IsNegative(y) THEN below(y, x) ELSE TRUE)
      ELSE (IF IsNegative(y) THEN FALSE ELSE below(x, y))

\* The decimal |a - b| of two decimals.
Distance(a, b, less) ==
  DecimalDifference(IF less THEN b ELSE a, IF less THEN a ELSE b)

\* The Number of the sum of the decimal a with the sign xneg and the
\* decimal b with the sign yneg.
SumOfMagnitudes(xneg, a, yneg, b, less) ==
  RoundedNumber(IF xneg = yneg \/ ~less THEN xneg ELSE yneg,
                IF xneg = yneg THEN DecimalSum(a, b) ELSE Distance(a, b, less))

SumOfDecimals(xneg, a, yneg, b) ==
  SumOfMagnitudes(xneg, a, yneg, b, DecimalLess(a, b))

\* The sum of the Numbers x and y taken with the signs xneg and yneg.
SignedSum(x, xneg, y, yneg) ==
  IF x.t = "inf"
  THEN (IF y.t = "inf" /\ yneg # xneg THEN NaN ELSE x)
  ELSE IF y.t = "inf" THEN Inf(yneg)
  ELSE SumOfDecimals(xneg, Magnitude(x), yneg, Magnitude(y))

\* x + y for Numbers x and y, y negated if minus (x - y).
NumberSum(x, y0, minus) ==
  SignedSum(x, IsNegative(x), y0, IF minus THEN ~IsNegative(y0) ELSE IsNegative(y0))

\* Number::toString(v) for a Number v that is not NaN.
NumberToString(v) ==
  IF v.t = "inf"
  THEN (IF v.neg THEN <<"-">> ELSE <<>>) \o <<"I", "n", "f", "i", "n", "i", "t", "y">>
  ELSE IF v.t = "num"
       THEN (IF v.v < 0 THEN <<"-">> \o ToDigits(0 - v.v) ELSE ToDigits(v.v))
  ELSE LET d == v.digits
           k == Len(d)
           n == v.point
           e == n - 1
           exponent == <<"e", IF e < 0 THEN "-" ELSE "+">>
                         \o ToDigits(IF e < 0 THEN 0 - e ELSE e)
       IN  (IF v.neg THEN <<"-">> ELSE <<>>)
             \o (IF k <= n /\ n <= 21 THEN d \o [i \in 1..(n - k) |-> "0"]
                 ELSE IF 0 < n /\ n <= 21
                      THEN SubSeq(d, 1, n) \o <<".">> \o SubSeq(d, n + 1, k)
                 ELSE IF -6 < n /\ n <= 0
                      THEN <<"0", ".">> \o [i \in 1..(0 - n) |-> "0"] \o d
                 ELSE IF k = 1 THEN d \o exponent
                 ELSE <<d[1], ".">> \o SubSeq(d, 2, k) \o exponent)

\* The Number a decimal literal denotes: the digits before and after its
\* point, and the sign and the digits of its exponent.  An exponent of
\* more than six digits is beyond every finite Number but zero.
DecimalLiteralValue(neg, whole, fraction, expNeg, expDigits) ==
  LET sig == IF \A i \in 1..Len(expDigits) : expDigits[i] = "0" THEN <<>>
             ELSE SubSeq(expDigits,
                         CHOOSE i \in 1..Len(expDigits) :
                           expDigits[i] # "0"
                             /\ \A j \in 1..(i - 1) : expDigits[j] = "0",
                         Len(expDigits))
      mag == IF Len(sig) > 6 THEN 1000000 ELSE DigitsValue(sig)
  IN  Finite(neg, whole \o fraction,
             Len(whole) + (IF expNeg THEN 0 - mag ELSE mag))

\* 2^32 - 2, the greatest array index.
MaxArrayIndex == <<"4", "2", "9", "4", "9", "6", "7", "2", "9", "4">>

\* a < b for the canonical decimal texts a and b of two natural numbers.
IndexLess(a, b) ==
  \/ Len(a) < Len(b)
  \/ /\ Len(a) = Len(b)
     /\ SeqBefore([i \in 1..Len(a) |-> DigitValue(a[i])],
                  [i \in 1..Len(b) |-> DigitValue(b[i])])

\* An array index: the canonical decimal text of an integer from 0 to
\* 2^32 - 2.
IsArrayIndex(k) ==
  /\ Len(k) > 0
  /\ \A i \in 1..Len(k) : k[i] \in Digits
  /\ (k[1] # "0" \/ Len(k) = 1)
  /\ ~IndexLess(MaxArrayIndex, k)

\* OrdinaryOwnPropertyKeys places array indices first, ascending, and then
\* the other keys in the order of their creation.
KeyBefore(k, other) ==
  /\ IsArrayIndex(k)
  /\ (~IsArrayIndex(other) \/ IndexLess(k, other))

\* CreateDataProperty(o, k, v) on the property list of o.
PutProperty(props, k, v) ==
  IF \E i \in 1..Len(props) : props[i].k = k
  THEN [i \in 1..Len(props) |->
          IF props[i].k = k THEN [k |-> k, v |-> v] ELSE props[i]]
  ELSE LET n == Cardinality({i \in 1..Len(props) : ~KeyBefore(k, props[i].k)})
       IN  SubSeq(props, 1, n) \o <<[k |-> k, v |-> v]>>
             \o SubSeq(props, n + 1, Len(props))

\* o.k for an object created by JSON.parse or an object literal.
GetProperty(o, k) ==
  IF o.t = "obj" /\ \E i \in 1..Len(o.v) : o.v[i].k = k
  THEN o.v[CHOOSE i \in 1..Len(o.v) : o.v[i].k = k].v
  ELSE Undefined

HasProperty(o, k) == o.t = "obj" /\ \E i \in 1..Len(o.v) : o.v[i].k = k

(***************************************************************************)
(* JSON.parse                                                              *)
(*                                                                         *)
(* A parse step yields [ok, val, next]: whether it succeeded, the value,   *)
(* and the position after it.                                              *)
(***************************************************************************)
ParseFail == [ok |-> FALSE, val |-> Undefined, next |-> 0]
ParseOk(v, n) == [ok |-> TRUE, val |-> v, next |-> n]

RECURSIVE SkipWhitespace(_, _)
SkipWhitespace(s, i) ==
  IF i <= Len(s) /\ s[i] \in JsonWhitespace THEN SkipWhitespace(s, i + 1) ELSE i

\* The characters that may follow the backslash in a JSON string.
JsonEscapes == {QUOTE, BACKSLASH, "/", "b", "f", "n", "r", "t", "u"}

\* The character a two-character escape of a JSON string denotes.
Unescape(c) ==
  CASE c = "b" -> BS [] c = "f" -> FF [] c = "n" -> LF
    [] c = "r" -> CR [] c = "t" -> TAB [] OTHER -> c

HexDigits ==
  Digits \cup {"a", "b", "c", "d", "e", "f", "A", "B", "C", "D", "E", "F"}

HexDigitValue(c) ==
  CHOOSE n \in 0..15 :
    \/ c = HexDigitChars[n + 1]
    \/ c = <<"0", "1", "2", "3", "4", "5", "6", "7", "8", "9", "a", "b", "c",
             "d", "e", "f">>[n + 1]

\* The code unit the four hexadecimal digits of s from position i denote.
HexCodeUnit(s, i) ==
  CodeUnit(4096 * HexDigitValue(s[i]) + 256 * HexDigitValue(s[i + 1])
             + 16 * HexDigitValue(s[i + 2]) + HexDigitValue(s[i + 3]))

RECURSIVE JsonStringBody(_, _, _)
\* The escape whose backslash is at q, plain the characters read so far.
JsonStringEscape(s, q, plain) ==
  IF q + 1 > Len(s) \/ s[q + 1] \notin JsonEscapes THEN ParseFail
  ELSE IF s[q + 1] # "u"
       THEN JsonStringBody(s, q + 2, Append(plain, Unescape(s[q + 1])))
  ELSE IF q + 5 <= Len(s) /\ \A k \in 2..5 : s[q + k] \in HexDigits
       THEN JsonStringBody(s, q + 6, Append(plain, HexCodeUnit(s, q + 2)))
  ELSE ParseFail

\* The characters from p up to the quote or backslash at q.
JsonStringSpan(s, p, acc, q) ==
  IF \E k \in p..(q - 1) : s[k] \in C0Controls THEN ParseFail
  ELSE IF s[q] = QUOTE THEN ParseOk(Str(acc \o SubSeq(s, p, q - 1)), q + 1)
  ELSE JsonStringEscape(s, q, acc \o SubSeq(s, p, q - 1))

\* specials: the positions of the quotes and backslashes from p on.
JsonStringUpTo(s, p, acc, specials) ==
  IF specials = {} THEN ParseFail
  ELSE JsonStringSpan(s, p, acc,
                      CHOOSE j \in specials : \A k \in specials : j <= k)

\* The rest of a JSON string whose opening quote has been read.
\* The characters up to the next quote or backslash are read in one step.
JsonStringBody(s, p, acc) ==
  JsonStringUpTo(s, p, acc, {j \in p..Len(s) : s[j] \in {QUOTE, BACKSLASH}})

RECURSIVE DigitRunEnd(_, _)
\* The position after the run of digits that starts at i.
DigitRunEnd(s, i) ==
  IF i <= Len(s) /\ s[i] \in Digits THEN DigitRunEnd(s, i + 1) ELSE i

\* The position after the optional fraction (a point and digits) at i.
FractionEnd(s, i) ==
  IF i <= Len(s) /\ s[i] = "." THEN DigitRunEnd(s, i + 1) ELSE i

\* Whether an exponent part starts at i, and whether it has a sign.
HasExponent(s, i) == i <= Len(s) /\ s[i] \in {"e", "E"}
ExponentSigned(s, i) ==
  HasExponent(s, i) /\ i + 1 <= Len(s) /\ s[i + 1] \in {"+", "-"}

\* The positions of the first digit of the exponent at i and after its
\* last; without an exponent the latter is i.
ExponentFirst(s, i) == IF ExponentSigned(s, i) THEN i + 2 ELSE i + 1
ExponentEnd(s, i) ==
  IF HasExponent(s, i) THEN DigitRunEnd(s, ExponentFirst(s, i)) ELSE i

\* The parts of a decimal literal whose whole digits end before wholeEnd.
LiteralParts(s, wholeEnd, fracEnd) ==
  [wholeEnd |-> wholeEnd,
   hasFrac  |-> fracEnd # wholeEnd,
   fracEnd  |-> fracEnd,
   hasExp   |-> HasExponent(s, fracEnd),
   signed   |-> ExponentSigned(s, fracEnd),
   expFirst |-> ExponentFirst(s, fracEnd),
   expEnd   |-> ExponentEnd(s, fracEnd)]
LiteralSpans(s, wholeEnd) == LiteralParts(s, wholeEnd, FractionEnd(s, wholeEnd))

\* The Number the literal of s with the parts p denotes, its whole digits
\* from first on.
LiteralValue(s, neg, first, p) ==
  DecimalLiteralValue(neg, SubSeq(s, first, p.wholeEnd - 1),
                      SubSeq(s, p.wholeEnd + 1, p.fracEnd - 1),
                      p.signed /\ s[p.fracEnd + 1] = "-",
                      SubSeq(s, p.expFirst, p.expEnd - 1))

JsonNumberOf(s, neg, first, p) ==
  IF p.wholeEnd = first THEN ParseFail
  ELSE IF p.hasFrac /\ p.fracEnd = p.wholeEnd + 1 THEN ParseFail
  ELSE IF p.hasExp /\ p.expEnd = p.expFirst THEN ParseFail
  ELSE ParseOk(LiteralValue(s, neg, first, p), p.expEnd)

JsonNumberFrom(s, neg, first) ==
  JsonNumberOf(s, neg, first,
               LiteralSpans(s, IF first <= Len(s) /\ s[first] = "0"
                               THEN first + 1 ELSE DigitRunEnd(s, first)))

\* A JSON number: -? (0 | [1-9][0-9]*) (. [0-9]+)? ([eE] [+-]? [0-9]+)?
JsonNumber(s, i) == JsonNumberFrom(s, s[i] = "-", IF s[i] = "-" THEN i + 1 ELSE i)

JsonLiteral(s, i, word, v) ==
  IF SubSeq(s, i, Min(Len(s), i + Len(word) - 1)) = word
  THEN ParseOk(v, i + Len(word)) ELSE ParseFail

RECURSIVE JsonValue(_, _), JsonElements(_, _, _), JsonMembers(_, _, _)
\* A JSON value that starts at position i (whitespace already skipped).
JsonValue(s, i) ==
  IF i > Len(s) THEN ParseFail
  ELSE CASE s[i] = "{" ->
              LET j == SkipWhitespace(s, i + 1)
              IN  IF j <= Len(s) /\ s[j] = "}" THEN ParseOk(Obj(<<>>), j + 1)
                  ELSE JsonMembers(s, j, <<>>)
         [] s[i] = "[" ->
              LET j == SkipWhitespace(s, i + 1)
              IN  IF j <= Len(s) /\ s[j] = "]" THEN ParseOk(Arr(<<>>), j + 1)
                  ELSE JsonElements(s, j, <<>>)
         [] s[i] = QUOTE -> JsonStringBody(s, i + 1, <<>>)
         [] s[i] = "-" \/ s[i] \in Digits -> JsonNumber(s, i)
         [] s[i] = "t" -> JsonLiteral(s, i, <<"t", "r", "u", "e">>, Bool(TRUE))
         [] s[i] = "f" -> JsonLiteral(s, i, <<"f", "a", "l", "s", "e">>, Bool(FALSE))
         [] s[i] = "n" -> JsonLiteral(s, i, <<"n", "u", "l", "l">>, Null)
         [] OTHER -> ParseFail

\* The elements of an array from position i on, acc the elements read.
JsonElements(s, i, acc) ==
  LET e == JsonValue(s, i)
      j == SkipWhitespace(s, e.next)
  IN  IF ~e.ok \/ j > Len(s) THEN ParseFail
      ELSE IF s[j] = "]" THEN ParseOk(Arr(Append(acc, e.val)), j + 1)
      ELSE IF s[j] = ","
           THEN JsonElements(s, SkipWhitespace(s, j + 1), Append(acc, e.val))
      ELSE ParseFail

\* The members of an object from position i on, acc the properties read.
JsonMemberEnd(s, m, j, props) ==
  IF ~m.ok \/ j > Len(s) THEN ParseFail
  ELSE IF s[j] = "}" THEN ParseOk(Obj(props), j + 1)
  ELSE IF s[j] = "," THEN JsonMembers(s, SkipWhitespace(s, j + 1), props)
  ELSE ParseFail

JsonMemberValue(s, acc, key, m) ==
  JsonMemberEnd(s, m, SkipWhitespace(s, m.next),
                PutProperty(acc, key.val.v, m.val))

JsonMemberColon(s, acc, key, colon) ==
  JsonMemberValue(s, acc, key,
                  IF key.ok /\ colon <= Len(s) /\ s[colon] = ":"
                  THEN JsonValue(s, SkipWhitespace(s, colon + 1))
                  ELSE ParseFail)

JsonMemberKey(s, acc, key) ==
  JsonMemberColon(s, acc, key, SkipWhitespace(s, key.next))

JsonMembers(s, i, acc) ==
  JsonMemberKey(s, acc, IF i <= Len(s) /\ s[i] = QUOTE
                        THEN JsonStringBody(s, i + 1, <<>>) ELSE ParseFail)

\* JSON.parse(s): [ok, val]; ok is FALSE where JSON.parse throws SyntaxError.
JSONParseResult(s, r) ==
  IF r.ok /\ SkipWhitespace(s, r.next) = Len(s) + 1
  THEN [ok |-> TRUE, val |-> r.val]
  ELSE [ok |-> FALSE, val |-> Undefined]

JSONParse(s) == JSONParseResult(s, JsonValue(s, SkipWhitespace(s, 1)))

(***************************************************************************)
(* Number conversion (ToNumber, ToString, Math.min, Math.max)              *)
(***************************************************************************)
\* s.trim()
TrimTo(s, kept) ==
  IF kept = {} THEN <<>>
  ELSE SubSeq(s, CHOOSE i \in kept : \A j \in kept : i <= j,
                 CHOOSE i \in kept : \A j \in kept : j <= i)

Trim(s) == TrimTo(s, {i \in 1..Len(s) : s[i] \notin JsWhitespace})

RECURSIVE RadixValue(_, _)
\* The decimal that the digits ds denote in the radix 2^bits, by halves.
RadixValue(ds, bits) ==
  IF Len(ds) = 0 THEN Decimal(<<>>, 0)
  ELSE IF Len(ds) = 1
       THEN Trimmed(Decimal(<<HexDigitValue(ds[1]) \div 10,
                              HexDigitValue(ds[1]) % 10>>, 2))
  ELSE LET h == Len(ds) \div 2
       IN  DecimalSum(TimesPowerOfTwo(RadixValue(SubSeq(ds, 1, h), bits),
                                      bits * (Len(ds) - h)),
                      RadixValue(SubSeq(ds, h + 1, Len(ds)), bits))

\* StrUnsignedDecimalLiteral: Infinity, or digits with an optional point
\* and an optional exponent, a digit on one side of the point at least.
StrDecimalLiteralOf(neg, u, p) ==
  IF u = <<"I", "n", "f", "i", "n", "i", "t", "y">> THEN Inf(neg)
  ELSE IF (p.wholeEnd - 1)
            + (IF p.hasFrac THEN p.fracEnd - p.wholeEnd - 1 ELSE 0) = 0
       THEN NaN
  ELSE IF p.expEnd # Len(u) + 1 THEN NaN
  ELSE IF p.hasExp /\ p.expEnd = p.expFirst THEN NaN
  ELSE LiteralValue(u, neg, 1, p)

StrDecimalLiteral(neg, u) ==
  StrDecimalLiteralOf(neg, u, LiteralSpans(u, DigitRunEnd(u, 1)))

\* StringToNumber: the StringNumericLiteral grammar on the trimmed text.
\* The bits of a digit of the literal u: 4, 3 or 1 after the prefixes 0x,
\* 0o and 0b, and 0 for a decimal literal.
RadixBits(u) ==
  IF Len(u) < 3 \/ u[1] # "0" THEN 0
  ELSE CASE u[2] \in {"x", "X"} -> 4
         [] u[2] \in {"o", "O"} -> 3
         [] u[2] \in {"b", "B"} -> 1
         [] OTHER -> 0

\* NonDecimalIntegerLiteral: the digits after the prefix, none of them
\* beyond the radix.
RadixLiteral(body, bits) ==
  IF \A i \in 1..Len(body) :
       body[i] \in HexDigits /\ HexDigitValue(body[i]) < <<2, 4, 8, 16>>[bits]
  THEN RoundedNumber(FALSE, RadixValue(body, bits))
  ELSE NaN

TrimmedToNumber(u, bits) ==
  IF Len(u) = 0 THEN Num(0)
  ELSE IF bits # 0 THEN RadixLiteral(SubSeq(u, 3, Len(u)), bits)
  ELSE StrDecimalLiteral(u[1] = "-",
                         IF u[1] \in {"-", "+"} THEN Tail(u) ELSE u)

StringToNumberOf(u) == TrimmedToNumber(u, RadixBits(u))

StringToNumber(s) == StringToNumberOf(Trim(s))

KeyToString == <<"t", "o", "S", "t", "r", "i", "n", "g">>

\* The abrupt completion of a conversion: the TypeError "Cannot convert
\* object to primitive value" that OrdinaryToPrimitive throws.
TypeErrorThrown == [t |-> "throw"]

RECURSIVE ToPrimitiveThrows(_)
\* Whether ToPrimitive(x) throws, under either hint.  An object made by
\* JSON.parse or by an object literal owns data properties only, none of
\* them callable: an own toString hides Object.prototype.toString, the
\* only method that would give a primitive (Object.prototype.valueOf gives
\* the object itself), so the conversion throws exactly if the object owns
\* toString.  An array converts by join, which converts each element that
\* is neither undefined nor null.
ToPrimitiveThrows(x) ==
  CASE x.t = "obj" -> \E i \in 1..Len(x.v) : x.v[i].k = KeyToString
    [] x.t = "arr" -> \E i \in 1..Len(x.v) : ToPrimitiveThrows(x.v[i])
    [] OTHER       -> FALSE

RECURSIVE ToStringValue(_), JoinValues(_)
\* ToString(x); an array is its elements joined by ",".
ToStringValue(x) ==
  CASE x.t = "undefined" -> <<"u", "n", "d", "e", "f", "i", "n", "e", "d">>
    [] x.t = "null" -> <<"n", "u", "l", "l">>
    [] x.t = "nan"  -> <<"N", "a", "N">>
    [] x.t = "bool" -> IF x.v THEN <<"t", "r", "u", "e">>
                       ELSE <<"f", "a", "l", "s", "e">>
    [] x.t \in {"num", "dec", "inf"} -> NumberToString(x)
    [] x.t = "str"  -> x.v
    [] x.t = "arr"  -> JoinValues(x.v)
    [] x.t = "obj"  -> IF ToPrimitiveThrows(x) THEN TypeErrorThrown
                       ELSE <<"[", "o", "b", "j", "e", "c", "t", " ",
                              "O", "b", "j", "e", "c", "t", "]">>

\* Array.prototype.join: undefined and null elements are the empty text.
JoinValues(a) ==
  IF \E i \in 1..Len(a) : ToPrimitiveThrows(a[i]) THEN TypeErrorThrown
  ELSE IF Len(a) = 0 THEN <<>>
  ELSE LET h == IF a[1].t \in {"undefined", "null"} THEN <<>> ELSE ToStringValue(a[1])
       IN  IF Len(a) = 1 THEN h ELSE h \o <<",">> \o JoinValues(Tail(a))

\* ToNumber(x): a Number.
ToNumber(x) ==
  IF ToPrimitiveThrows(x) THEN TypeErrorThrown
  ELSE CASE x.t = "undefined" -> NaN
         [] x.t = "null" -> Num(0)
         [] x.t = "nan"  -> NaN
         [] x.t = "bool" -> Num(IF x.v THEN 1 ELSE 0)
         [] x.t \in {"num", "dec", "inf"} -> x
         [] x.t \in {"str", "arr"} ->
              StringToNumber(IF x.t = "str" THEN x.v ELSE JoinValues(x.v))
         [] x.t = "obj"  -> NaN

\* Math.min(a, b) and Math.max(a, b): NaN if either argument converts to NaN.
\* The lesser or the greater of the Numbers x and y; the arguments are
\* converted first, so a conversion that throws ends the call.
Extreme(x, y, greater) ==
  IF x.t = "throw" \/ y.t = "throw" THEN TypeErrorThrown
  ELSE IF x.t = "nan" \/ y.t = "nan" THEN NaN
  ELSE IF (IF greater THEN NumberLess(x, y) ELSE NumberLess(y, x)) THEN y
  ELSE x

MathMin(a, b) == Extreme(ToNumber(a), ToNumber(b), FALSE)

MathMax(a, b) == Extreme(ToNumber(a), ToNumber(b), TRUE)

(***************************************************************************)
(* src/src/auditor.ts: the pure parts of auditContract                     *)
(***************************************************************************)
ExtTact == <<".", "t", "a", "c", "t">>
ExtFc == <<".", "f", "c">>
ExtFunc == <<".", "f", "u", "n", "c">>
WordContract == <<"c", "o", "n", "t", "r", "a", "c", "t", " ">>
WordFun == <<"f", "u", "n", " ">>
WordImpure == <<"(", ")", " ", "i", "m", "p", "u", "r", "e">>
WordRecvInternal ==
  <<"r", "e", "c", "v", "_", "i", "n", "t", "e", "r", "n", "a", "l">>
WordInclude == <<"#", "i", "n", "c", "l", "u", "d", "e">>
IdPrefix == <<"T", "O", "N", "-">>
UnknownContract ==
  <<"U", "n", "k", "n", "o", "w", "n", " ", "C", "o", "n", "t", "r", "a",
    "c", "t">>
KeyFindings == <<"f", "i", "n", "d", "i", "n", "g", "s">>
KeyOverallRisk == <<"o", "v", "e", "r", "a", "l", "l", "R", "i", "s", "k">>
KeySummary == <<"s", "u", "m", "m", "a", "r", "y">>
KeyGasAnalysis == <<"g", "a", "s", "A", "n", "a", "l", "y", "s", "i", "s">>
KeyArchitectureNotes ==
  <<"a", "r", "c", "h", "i", "t", "e", "c", "t", "u", "r", "e", "N", "o",
    "t", "e", "s">>
KeyScore == <<"s", "c", "o", "r", "e">>
KeyId == <<"i", "d">>
RiskMedium == <<"m", "e", "d", "i", "u", "m">>

\* filename?.endsWith(ext): filename is Undefined or Str(name).
FilenameEndsWith(filename, ext) ==
  filename.t = "str" /\ EndsWith(filename.v, ext)

\* detectLanguage(code, filename)
detectLanguage(code, filename) ==
  IF FilenameEndsWith(filename, ExtTact) THEN "tact"
  ELSE IF FilenameEndsWith(filename, ExtFc) \/ FilenameEndsWith(filename, ExtFunc)
       THEN "func"
  ELSE IF Includes(code, WordContract) /\ Includes(code, WordFun) THEN "tact"
  ELSE IF \/ Includes(code, WordImpure)
          \/ Includes(code, WordRecvInternal)
          \/ Includes(code, WordInclude)
       THEN "func"
  ELSE "unknown"

\* code.split("\n").filter((l) => l.trim().length > 0).length
CountLines(code) ==
  LET ls == SplitLines(code)
  IN  Cardinality({i \in 1..Len(ls) : NonBlank(ls[i])})

\* A variant of MatchObject whose quantifier is lazy, /\{[\s\S]*?\}/: the
\* match ends at the first "}" after the first "{".
MatchObjectLazy(s) ==
  LET opens  == {i \in 1..Len(s) : s[i] = "{"}
      first  == CHOOSE i \in opens : \A j \in opens : i <= j
      closes == {i \in 1..Len(s) : s[i] = "}" /\ i > first}
      last   == CHOOSE i \in closes : \A j \in closes : i <= j
  IN  IF opens = {} THEN [matched |-> FALSE, text |-> <<>>]
      ELSE IF closes = {} THEN [matched |-> FALSE, text |-> <<>>]
      ELSE [matched |-> TRUE, text |-> SubSeq(s, first, last)]

\* fullResponse.match(/\{[\s\S]*\}/): the match runs from the first "{" to
\* the last "}" after it; [matched, text].
MatchObject(s) ==
  LET opens  == {i \in 1..Len(s) : s[i] = "{"}
      first  == CHOOSE i \in opens : \A j \in opens : i <= j
      closes == {i \in 1..Len(s) : s[i] = "}" /\ i > first}
      last   == CHOOSE i \in closes : \A j \in closes : j <= i
  IN  IF opens = {} THEN [matched |-> FALSE, text |-> <<>>]
      ELSE IF closes = {} THEN [matched |-> FALSE, text |-> <<>>]
      ELSE [matched |-> TRUE, text |-> SubSeq(s, first, last)]

\* A variant of StringSpanEnd that takes no account of backslashes,
\* /"[^"]*"/: the span ends at the next quote, escaped or not.
StringSpanEndAtAnyQuote(s, p) ==
  LET quotes == {j \in p..Len(s) : s[j] = QUOTE}
  IN  IF quotes = {} THEN 0
      ELSE CHOOSE j \in quotes : \A k \in quotes : j <= k

RECURSIVE StringSpanEnd(_, _)
\* /"(?:[^"\\]|\\.)*"/ tried at an opening quote, p the position after what
\* has been matched: the position of the closing quote, or 0 if the
\* expression does not match there.
StringSpanEnd(s, p) ==
  LET specials == {j \in p..Len(s) : s[j] \in {QUOTE, BACKSLASH}}
      q        == CHOOSE j \in specials : \A k \in specials : j <= k
  IN  IF specials = {} THEN 0
      ELSE IF s[q] = QUOTE THEN q
      ELSE IF q + 1 <= Len(s) /\ s[q + 1] \notin LineTerminators
           THEN StringSpanEnd(s, q + 2)
      ELSE 0

\* s.replace(/c/g, r) for a single character c
ReplaceChar(s, c, r) ==
  Flatten([i \in 1..Len(s) |-> IF s[i] = c THEN r ELSE <<s[i]>>])

\* A variant of EscapeMatch without its first replace: raw newlines stay.
EscapeMatchKeepingNewlines(m) ==
  ReplaceChar(ReplaceChar(m, CR, <<BACKSLASH, "r">>), TAB, <<BACKSLASH, "t">>)

\* The replacement callback of stage 2, applied to one match.
EscapeMatch(m) ==
  ReplaceChar(ReplaceChar(ReplaceChar(m, LF, <<BACKSLASH, "n">>),
                          CR, <<BACKSLASH, "r">>),
              TAB, <<BACKSLASH, "t">>)

RECURSIVE ReplaceStringSpans(_, _)
\* The global replace of stage 2 from position i on: matches are sought left
\* to right and do not overlap.
ReplaceStringSpans(s, i) ==
  LET quotes == {j \in i..Len(s) : s[j] = QUOTE}
      q      == CHOOSE j \in quotes : \A k \in quotes : j <= k
      e      == StringSpanEnd(s, q + 1)
  IN  IF quotes = {} THEN SubSeq(s, i, Len(s))
      ELSE IF e > 0
      THEN SubSeq(s, i, q - 1) \o EscapeMatch(SubSeq(s, q, e))
             \o ReplaceStringSpans(s, e + 1)
      ELSE SubSeq(s, i, q) \o ReplaceStringSpans(s, q + 1)

\* A variant of SanitizeStrings that is not scoped to string spans: the three
\* replacements run over the whole candidate.
SanitizeEverywhere(s) ==
  ReplaceChar(ReplaceChar(ReplaceChar(s, LF, <<BACKSLASH, "n">>),
                          CR, <<BACKSLASH, "r">>),
              TAB, <<BACKSLASH, "t">>)

\* Stage 2: jsonStr.replace(/"(?:[^"\\]|\\.)*"/g, (match) => ...)
SanitizeStrings(s) == ReplaceStringSpans(s, 1)

\* Stage 4: jsonStr.replace(/[\x00-\x1F\x7F]/g, (c) => ...)
StripControls(s) ==
  Flatten([i \in 1..Len(s) |->
             CASE s[i] = LF  -> <<BACKSLASH, "n">>
               [] s[i] = CR  -> <<BACKSLASH, "r">>
               [] s[i] = TAB -> <<BACKSLASH, "t">>
               [] s[i] \in (C0Controls \cup {DEL}) \ {LF, CR, TAB} -> <<>>
               [] OTHER -> <<s[i]>>])

\* `TON-${String(i + 1).padStart(3, "0")}` for the map index i (from 0)
FindingId(i) == IdPrefix \o PadStart(ToDigits(i + 1), 3, "0")

\* The properties that the spread ...f copies: the own enumerable
\* properties of an object, the indexed characters of a string, the indexed
\* elements of an array, nothing for any other value.
SpreadProperties(f) ==
  CASE f.t = "obj" -> f.v
    [] f.t = "str" -> [j \in 1..Len(f.v) |->
                         [k |-> ToDigits(j - 1), v |-> Str(<<f.v[j]>>)]]
    [] f.t = "arr" -> [j \in 1..Len(f.v) |-> [k |-> ToDigits(j - 1), v |-> f.v[j]]]
    [] OTHER -> <<>>

\* A variant of WithId that spreads after assigning, ({ id: ..., ...f }): an
\* id of the payload's finding overwrites the assigned one.
WithIdBeforeSpread(f, i) ==
  LET own == SpreadProperties(f)
      put[n \in 0..Len(own)] ==
        IF n = 0 THEN <<[k |-> KeyId, v |-> Str(FindingId(i))]>>
        ELSE PutProperty(put[n - 1], own[n].k, own[n].v)
  IN  Obj(put[Len(own)])

\* (f, i) => ({ ...f, id: ... })
WithId(f, i) == Obj(PutProperty(SpreadProperties(f), KeyId, Str(FindingId(i))))

\* (parsed.findings || []).map(...): [ok, val]; ok is FALSE where the call
\* throws TypeError, the value of parsed.findings || [] having no map method.
MapFindings(parsed) ==
  LET raw == OrElse(GetProperty(parsed, KeyFindings), Arr(<<>>))
  IN  IF raw.t = "arr"
      THEN [ok |-> TRUE,
            val |-> Arr([j \in 1..Len(raw.v) |-> WithId(raw.v[j], j - 1)])]
      ELSE [ok |-> FALSE, val |-> Undefined]

\* A variant of ContractName that cuts at the first dot, as the pattern
\* /\..+$/ would.
ContractNameFromFirstDot(filename) ==
  IF filename.t # "str" THEN Str(UnknownContract)
  ELSE LET s        == filename.v
           dots     == {i \in 1..Len(s) : s[i] = "."}
           firstDot == CHOOSE i \in dots : \A j \in dots : i <= j
           stripped == IF dots # {} /\ firstDot < Len(s)
                       THEN SubSeq(s, 1, firstDot - 1) ELSE s
       IN  OrElse(Str(stripped), Str(UnknownContract))

\* filename?.replace(/\.[^.]+$/, "") || "Unknown Contract"
ContractName(filename) ==
  IF filename.t # "str" THEN Str(UnknownContract)
  ELSE LET s        == filename.v
           dots     == {i \in 1..Len(s) : s[i] = "."}
           lastDot  == CHOOSE i \in dots : \A j \in dots : j <= i
           stripped == IF dots # {} /\ lastDot < Len(s)
                       THEN SubSeq(s, 1, lastDot - 1) ELSE s
       IN  OrElse(Str(stripped), Str(UnknownContract))

\* Math.max(0, m) for the completion m of the inner call: a TypeError
\* thrown there leaves the outer call unmade.
MaxWithZero(m) == IF m.t = "throw" THEN m ELSE MathMax(Num(0), m)

\* Math.max(0, Math.min(100, parsed.score || 50))
Score(parsed) ==
  MaxWithZero(MathMin(Num(100), OrElse(GetProperty(parsed, KeyScore), Num(50))))

\* The object literal of lines 189-201 once its last property, score, has
\* been evaluated: the TypeError if that evaluation threw.
ReportWith(fields, score) ==
  IF score.t = "throw" THEN score
  ELSE [contractName      |-> fields.contractName,
        language          |-> fields.language,
        linesOfCode       |-> fields.linesOfCode,
        auditedAt         |-> fields.auditedAt,
        overallRisk       |-> fields.overallRisk,
        summary           |-> fields.summary,
        findings          |-> fields.findings,
        gasAnalysis       |-> fields.gasAnalysis,
        architectureNotes |-> fields.architectureNotes,
        score             |-> score]

\* A variant of AssembleReport that spreads the payload over the computed
\* fields, so that the payload's contractName, language and linesOfCode win.
AssembleReportTrustingPayload(parsed, findings, filename, language, lines, now) ==
 ReportWith(
  [contractName      |-> OrElse(GetProperty(parsed, <<"c", "o", "n", "t", "r", "a", "c", "t",
                                                      "N", "a", "m", "e">>),
                                ContractName(filename)),
   language          |-> language,
   linesOfCode       |-> IF GetProperty(parsed, <<"l", "i", "n", "e", "s", "O", "f", "C",
                                                   "o", "d", "e">>).t = "num"
                         THEN GetProperty(parsed, <<"l", "i", "n", "e", "s", "O", "f", "C",
                                                     "o", "d", "e">>).v
                         ELSE lines,
   auditedAt         |-> now,
   overallRisk       |-> OrElse(GetProperty(parsed, KeyOverallRisk), Str(RiskMedium)),
   summary           |-> OrElse(GetProperty(parsed, KeySummary), Str(<<>>)),
   findings          |-> findings,
   gasAnalysis       |-> OrElse(GetProperty(parsed, KeyGasAnalysis), Str(<<>>)),
   architectureNotes |-> OrElse(GetProperty(parsed, KeyArchitectureNotes), Str(<<>>))],
  Score(parsed))

\* The object literal that auditContract returns; now is the reading of the
\* clock that new Date() takes.
AssembleReport(parsed, findings, filename, language, lines, now) ==
 ReportWith(
  [contractName      |-> ContractName(filename),
   language          |-> language,
   linesOfCode       |-> lines,
   auditedAt         |-> now,
   overallRisk       |-> OrElse(GetProperty(parsed, KeyOverallRisk), Str(RiskMedium)),
   summary           |-> OrElse(GetProperty(parsed, KeySummary), Str(<<>>)),
   findings          |-> findings,
   gasAnalysis       |-> OrElse(GetProperty(parsed, KeyGasAnalysis), Str(<<>>)),
   architectureNotes |-> OrElse(GetProperty(parsed, KeyArchitectureNotes), Str(<<>>))],
  Score(parsed))

\* The errors auditContract throws: the Error of line 152 with the first 200
\* characters of the response, the Error of line 179 with its first 500, the
\* TypeError of the map call, the TypeError of the conversion of the score
\* (line 200), and whatever the transport threw.
RawPrefixLength == 200
FirstCharsLength == 500
ExtractionError(fullResponse) ==
  [kind |-> "extraction", text |-> SlicePrefix(fullResponse, RawPrefixLength)]
\* A variant of MalformedPayloadError that quotes the candidate instead of the
\* response.
MalformedFromCandidate(fullResponse, jsonStr) ==
  [kind |-> "malformed", text |-> SlicePrefix(jsonStr, FirstCharsLength)]

MalformedPayloadError(fullResponse, jsonStr) ==
  [kind |-> "malformed", text |-> SlicePrefix(fullResponse, FirstCharsLength)]
MapTypeError == [kind |-> "type", text |-> <<>>]
ConversionTypeError == [kind |-> "type", text |-> <<>>]
TransportError == [kind |-> "transport", text |-> <<>>]
NoError == [kind |-> "none", text |-> <<>>]

(***************************************************************************)
(* Inputs: what the caller passes (code, filename) and what the upstream   *)
(* stream delivers (the deltas, in order).                                 *)
(***************************************************************************)
\* Bounds of the modelled inputs.
MaxShort == 3
MaxItems == 2
MaxFindings == 2
MaxLines == 2
MaxChunks == 2
MaxClock == 2
ScoreMargin == 3
PadExtra == 2

\* The sequences of at most n elements of S.
SeqsUpTo(S, n) == UNION {[1..k -> S] : k \in 0..n}

SpecExample ==
  <<"n", "o", "i", "s", "e", " ", "{", QUOTE, "o", "v", "e", "r", "a", "l",
    "l", "R", "i", "s", "k", QUOTE, ":", QUOTE, "h", "i", "g", "h", QUOTE,
    ",", QUOTE, "s", "c", "o", "r", "e", QUOTE, ":", "4", "2", ",", QUOTE,
    "f", "i", "n", "d", "i", "n", "g", "s", QUOTE, ":", "[", "{", QUOTE,
    "s", "e", "v", "e", "r", "i", "t", "y", QUOTE, ":", QUOTE, "h", "i",
    "g", "h", QUOTE, ",", QUOTE, "c", "a", "t", "e", "g", "o", "r", "y",
    QUOTE, ":", QUOTE, "A", "c", "c", "e", "s", "s", " ", "C", "o", "n",
    "t", "r", "o", "l", QUOTE, ",", QUOTE, "t", "i", "t", "l", "e", QUOTE,
    ":", QUOTE, "X", QUOTE, ",", QUOTE, "d", "e", "s", "c", "r", "i", "p",
    "t", "i", "o", "n", QUOTE, ":", QUOTE, "d", QUOTE, ",", QUOTE, "r",
    "e", "c", "o", "m", "m", "e", "n", "d", "a", "t", "i", "o", "n", QUOTE,
    ":", QUOTE, "r", QUOTE, "}", "]", "}", " ", "t", "r", "a", "i", "l",
    "i", "n", "g">>
Hallucinated ==
  <<"{", QUOTE, "c", "o", "n", "t", "r", "a", "c", "t", "N", "a", "m", "e",
    QUOTE, ":", QUOTE, "e", "v", "i", "l", QUOTE, ",", QUOTE, "l", "a",
    "n", "g", "u", "a", "g", "e", QUOTE, ":", QUOTE, "t", "a", "c", "t",
    QUOTE, ",", QUOTE, "l", "i", "n", "e", "s", "O", "f", "C", "o", "d",
    "e", QUOTE, ":", "9", "9", "9", ",", QUOTE, "a", "u", "d", "i", "t",
    "e", "d", "A", "t", QUOTE, ":", QUOTE, "n", "e", "v", "e", "r", QUOTE,
    ",", QUOTE, "s", "c", "o", "r", "e", QUOTE, ":", "7", ",", QUOTE, "f",
    "i", "n", "d", "i", "n", "g", "s", QUOTE, ":", "[", "{", QUOTE, "i",
    "d", QUOTE, ":", QUOTE, "T", "O", "N", "-", "9", "9", "9", QUOTE, ",",
    QUOTE, "s", "e", "v", "e", "r", "i", "t", "y", QUOTE, ":", QUOTE, "l",
    "o", "w", QUOTE, "}", "]", "}">>
TopLevelArray == <<"[", "{", QUOTE, "a", QUOTE, ":", "1", "}", "]">>
TopLevelArrayOfTwo ==
  <<"[", "{", QUOTE, "a", QUOTE, ":", "1", "}", ",", "{", QUOTE, "b",
    QUOTE, ":", "2", "}", "]">>
TopLevelNumber == <<"4", "2">>
TopLevelString == <<QUOTE, "a", "{", "b", "}", "c", QUOTE>>
NestedObjects ==
  <<"{", QUOTE, "a", QUOTE, ":", "{", QUOTE, "b", QUOTE, ":", "{", "}",
    "}", ",", QUOTE, "c", QUOTE, ":", "[", "{", "}", "]", ",", QUOTE, "a",
    QUOTE, ":", QUOTE, BACKSLASH, BACKSLASH, QUOTE, "}">>
NewlineInKey ==
  <<"{", QUOTE, "a", LF, "b", QUOTE, ":", "1", ",", QUOTE, "c", QUOTE, ":",
    QUOTE, "d", TAB, "e", QUOTE, "}">>
MalformedCandidate == <<"{", QUOTE, "a", QUOTE, ":", "}">>
FenceOpen == <<"~", "~", "~", "j", "s", "o", "n", LF>>
FenceClose == <<LF, "~", "~", "~">>
CodeContract == <<"c", "o", "n", "t", "r", "a", "c", "t", " ", "X">>
CodeFun == <<"f", "u", "n", " ", "f">>
SampleCode ==
  <<"(", ")", " ", "i", "m", "p", "u", "r", "e", LF, LF, " ", " ", "r",
    "e", "c", "v", "_", "i", "n", "t", "e", "r", "n", "a", "l", LF>>

\* Every text of at most MaxShort characters of a small alphabet.
ShortAlphabet == {"{", "}", QUOTE, BACKSLASH, LF, "a"}
ShortBuffers == SeqsUpTo(ShortAlphabet, MaxShort)

\* What a string of the payload may hold between its quotes: plain
\* characters, valid escapes, an invalid escape, raw control characters.
StringItems ==
  {<<"a">>, <<BACKSLASH, "n">>, <<BACKSLASH, QUOTE>>, <<BACKSLASH, BACKSLASH>>,
   <<BACKSLASH, "a">>, <<BACKSLASH, LF>>, <<LF>>, <<CR>>, <<TAB>>, <<SOH>>, <<DEL>>}
StringBodies == {Flatten(b) : b \in SeqsUpTo(StringItems, MaxItems)}

\* {"key":value} with the text gap between its tokens.
ObjectText(gap, key, value) ==
  <<"{">> \o gap \o <<QUOTE>> \o key \o <<QUOTE>> \o gap \o <<":">> \o gap
    \o value \o gap \o <<"}">>

Quoted(body) == <<QUOTE>> \o body \o <<QUOTE>>

\* How the model lays the payload out: the whitespace between its tokens and
\* the text before and after it.
Layouts ==
  {[gap |-> <<>>,       pre |-> <<>>,          post |-> <<>>],
   [gap |-> <<" ">>,    pre |-> <<>>,          post |-> <<>>],
   [gap |-> <<LF>>,     pre |-> <<LF, " ">>,   post |-> <<TAB, CR>>],
   [gap |-> <<TAB>>,    pre |-> <<"o", "k", " ">>, post |-> <<" ", "y">>],
   [gap |-> <<CR, LF>>, pre |-> FenceOpen,     post |-> FenceClose]}

SummaryBuffers ==
  {l.pre \o ObjectText(l.gap, KeySummary, Quoted(b)) \o l.post :
     l \in Layouts, b \in StringBodies}

\* Payloads whose only field is score.
KeyValueOf == <<"v", "a", "l", "u", "e", "O", "f">>
SignedDigits(n) == IF n < 0 THEN <<"-">> \o ToDigits(0 - n) ELSE ToDigits(n)
\* Number literals with a fraction or an exponent, strings that ToNumber
\* reads as numbers or, the last two, does not, other values, and objects
\* that own toString or valueOf.
ScoreValueTexts ==
  {SignedDigits(n) : n \in (0 - ScoreMargin)..(100 + ScoreMargin)}
    \cup {<<"8", "5", ".", "5">>,
          <<"1", "e", "2">>,
          <<"1", "E", "1">>,
          <<"1", "0", "0", ".", "5">>,
          <<"-", "0", ".", "5">>,
          <<"0", ".", "0">>,
          <<"0", "e", "0">>,
          <<"1", "e", "4", "0", "0">>,
          <<"-", "1", "e", "4", "0", "0">>,
          <<"0", ".", "3", "0", "0", "0", "0", "0", "0", "0", "0", "0",
            "0", "0", "0", "0", "0", "0", "4">>,
          <<"2", ".", "5", "e", "-", "1">>}
    \cup {Quoted(w) : w \in
            {<<"1", "e", "1">>,
             <<"0", "x", "1", "0">>,
             <<"0", "b", "1", "1">>,
             <<"0", "o", "1", "7">>,
             <<"I", "n", "f", "i", "n", "i", "t", "y">>,
             <<"-", "I", "n", "f", "i", "n", "i", "t", "y">>,
             <<"1", ".", "5">>,
             <<".", "5">>,
             <<"1", "e">>,
             <<"0", "x">>}}
    \cup {Quoted(Flatten(b)) : b \in SeqsUpTo({<<"a">>, <<"7">>, <<"-">>, <<" ">>}, MaxItems)}
    \cup {<<"t", "r", "u", "e">>, <<"f", "a", "l", "s", "e">>, <<"n", "u", "l", "l">>,
          <<"-", "0">>, <<"{", "}">>, <<"[", "]">>, <<"[", "5", "]">>,
          <<"[", "1", ",", "2", "]">>, <<"[", QUOTE, "7", QUOTE, "]">>,
          <<"[", "n", "u", "l", "l", "]">>,
          <<"[", QUOTE, "1", "e", "1", QUOTE, "]">>, <<"[", "1", ".", "5", "]">>,
          <<QUOTE, BACKSLASH, "u", "0", "0", "3", "7", QUOTE>>}
    \cup {ObjectText(<<>>, KeyToString, <<"1">>),
          <<"[">> \o ObjectText(<<>>, KeyToString, <<"1">>) \o <<"]">>,
          ObjectText(<<>>, KeyValueOf, <<"1">>),
          <<"{", QUOTE>> \o KeyValueOf \o <<QUOTE, ":", "1", ",", QUOTE>>
            \o KeyToString \o <<QUOTE, ":", "n", "u", "l", "l", "}">>}
ScoreBuffers ==
  {ObjectText(<<>>, KeyScore, v) : v \in ScoreValueTexts} \cup {<<"{", "}">>}

\* Payloads whose only field is findings.
FindingTexts ==
  <<ObjectText(<<>>, <<"s", "e", "v", "e", "r", "i", "t", "y">>, Quoted(<<"l", "o", "w">>)),
    ObjectText(<<>>, <<"s", "e", "v", "e", "r", "i", "t", "y">>, Quoted(<<"h", "i", "g", "h">>)),
    ObjectText(<<>>, KeyId, Quoted(<<"T", "O", "N", "-", "0", "0", "9">>)),
    ObjectText(<<>>, KeyId, <<"7">>),
    <<"{", "}">>, Quoted(<<"a", "b">>), <<"n", "u", "l", "l">>, <<"[", "1", "]">>>>

RECURSIVE JoinTexts(_, _)
JoinTexts(ts, sep) ==
  IF Len(ts) = 0 THEN <<>>
  ELSE IF Len(ts) = 1 THEN ts[1]
  ELSE ts[1] \o sep \o JoinTexts(Tail(ts), sep)

FindingsValueTexts ==
  {<<"[">> \o JoinTexts([i \in 1..Len(c) |-> FindingTexts[c[i]]], <<",">>) \o <<"]">> :
     c \in SeqsUpTo(1..Len(FindingTexts), MaxFindings)}
    \cup {Quoted(<<"a">>), Quoted(<<>>), <<"5">>, <<"0">>, <<"{", "}">>,
          <<"t", "r", "u", "e">>, <<"f", "a", "l", "s", "e">>, <<"n", "u", "l", "l">>}
FindingsBuffers == {ObjectText(<<>>, KeyFindings, v) : v \in FindingsValueTexts}

\* Buffers longer than the prefixes that the error messages carry.
LongNoise == [i \in 1..(FirstCharsLength + PadExtra) |-> "x"]

\* The property of a finding that holds its code snippet
KeyCodeSnippet == <<"c", "o", "d", "e", "S", "n", "i", "p", "p", "e", "t">>

\* The characters of a snippet that the PDF shows: slice(0, 120) (pdf.ts
\* line 224)
SnippetLimit == 120

\* Payloads with one finding that carries a code snippet: of two characters,
\* of two lines, and of one character more than the PDF shows.
SnippetBuffer(snippet) ==
  ObjectText(<<>>, KeyFindings,
             <<"[">> \o ObjectText(<<>>, KeyCodeSnippet, Quoted(snippet)) \o <<"]">>)
SnippetBuffers ==
  {SnippetBuffer(<<"a", "b">>),
   SnippetBuffer(<<"a", BACKSLASH, "n", "b">>),
   SnippetBuffer([i \in 1..(SnippetLimit + 1) |-> "x"])}

FixedBuffers ==
  SnippetBuffers \cup
  {SpecExample, Hallucinated, TopLevelArray, TopLevelArrayOfTwo, TopLevelNumber,
   TopLevelString, NestedObjects, NewlineInKey,
   <<"n", "o">> \o MalformedCandidate, LongNoise \o MalformedCandidate,
   MalformedCandidate \o LongNoise, LongNoise}

\* The caller's inputs.
Filenames ==
  {Undefined}
    \cup {Str(stem \o ext) :
            stem \in {<<>>, <<"a">>, <<"a", ".", "b">>},
            ext \in {<<>>, <<".">>, ExtFc, ExtTact, ExtFunc, <<".", "x">>}}
CodeLines ==
  {<<>>, <<" ", TAB>>, <<CR>>, <<"a">>, CodeContract, CodeFun,
   WordInclude, WordImpure, WordRecvInternal}
Codes ==
  {JoinTexts(ls, <<LF>>) : ls \in SeqsUpTo(CodeLines, MaxLines) \ {<<>>}}

\* The ways the upstream may cut a buffer into at most MaxChunks deltas; an
\* empty delta is a chunk that carries no content.
RECURSIVE Cuts(_, _)
Cuts(buf, n) ==
  IF n = 0 THEN IF Len(buf) = 0 THEN {<<>>} ELSE {}
  ELSE UNION {{<<SubSeq(buf, 1, k)>> \o rest : rest \in Cuts(SubSeq(buf, k + 1, Len(buf)), n - 1)} :
                k \in 0..Len(buf)}
Chunkings(buf) == UNION {Cuts(buf, n) : n \in 0..MaxChunks}

\* The contents of chunks that carry the texts ch.
Contents(ch) == [i \in 1..Len(ch) |-> Str(ch[i])]

\* Streams with chunks that carry no content: choices empty or without a
\* delta, or the content null.
GappyStreams ==
  {<<Undefined>>, <<Null, Str(<<"{">>)>>,
   <<Str(<<"{">>), Undefined, Str(<<>>), Str(<<"}">>), Null>>}

Scenario(c, f, ch) == [code |-> c, filename |-> f, chunks |-> Contents(ch)]
Scenarios ==
  {Scenario(SampleCode, Str(<<"a">> \o ExtFc), <<b>>) :
     b \in ShortBuffers \cup SummaryBuffers \cup ScoreBuffers
             \cup FindingsBuffers \cup FixedBuffers}
    \cup {Scenario(c, f, <<b>>) :
            c \in {SampleCode, CodeContract \o <<LF>> \o CodeFun, <<"a">>},
            f \in Filenames, b \in {SpecExample, Hallucinated}}
    \cup {Scenario(c, f, <<b>>) :
            c \in Codes, f \in {Undefined, Str(<<"a", ".", "x">>)},
            b \in {SpecExample, Hallucinated}}
    \cup {Scenario(SampleCode, Undefined, ch) :
            ch \in Chunkings(<<"{", "}">>) \cup Chunkings(NewlineInKey)}
    \cup {[code |-> SampleCode, filename |-> Undefined, chunks |-> g] :
            g \in GappyStreams}

\* chunk.choices[0]?.delta?.content || "" (line 144)
DeltaOf(content) == OrElse(content, Str(<<>>)).v

\* A variant of Notify without the test of line 146.
NotifyAlways(made, delta) == Append(made, delta)

\* if (delta) onChunk?.(delta) (line 146), made the calls of onChunk so far
Notify(made, delta) == IF Len(delta) > 0 THEN Append(made, delta) ELSE made

(***************************************************************************)
(* auditContract as a state machine                                        *)
(***************************************************************************)
VARIABLES
  code,          \* the source text passed by the caller
  filename,      \* the filename passed by the caller: Undefined or Str(name)
  upstream,      \* what the upstream stream has yet to deliver: for each
                 \* chunk its choices[0]?.delta?.content
  delivered,     \* the iterations of the loop of lines 143-147 so far: the
                 \* content of the chunk and, if onChunk was called, the
                 \* buffer at the time of the call
  pc,            \* the position of auditContract
  language,      \* const language (line 128)
  lines,         \* const lines (line 129)
  fullResponse,  \* let fullResponse (line 131)
  observed,      \* the arguments of the calls of onChunk so far, in order
  jsonMatch,     \* jsonMatch[0] (line 150)
  jsonStr,       \* let jsonStr (lines 155-162)
  cleaned,       \* const cleaned (line 170)
  cleanedSet,    \* whether line 170 has run
  parsed,        \* let parsed (line 165)
  parseCalls,    \* the number of calls of JSON.parse so far
  report,        \* the AuditReport returned, Undefined until then
  error          \* the error thrown, NoError until then

auditVars ==
  <<code, filename, upstream, delivered, pc, language, lines, fullResponse, observed,
    jsonMatch, jsonStr, cleaned, cleanedSet, parsed, parseCalls, report, error>>

\* The state of POST /api/audit/batch (server.ts lines 365-428).
VARIABLES
  files,         \* req.files: the uploads, each with its code, its name and
                 \* the contents the upstream will stream for it
  bpc,           \* the position of the handler; "idle" outside a batch request
  idx,           \* let i (line 387)
  reports,       \* const reports (line 385)
  sent,          \* the events written to the response so far, in order
  status,        \* the HTTP status of the response, 0 until it is set
  ended,         \* whether the response has been ended
  comparison,    \* the value buildComparison returned, Undefined until then
  inflight,      \* the indices whose auditContract call is pending
  calls          \* the indices auditContract has been called for, in order

batchVars ==
  <<files, bpc, idx, reports, sent, status, ended, comparison, inflight, calls>>

\* Everything outside auditContract.
\* generatePDF (pdf.ts): the findings of the report being rendered, as the
\* lengths the layout reads; the position in generatePDF; the index i of the
\* loop of line 169; the vertical position y of line 166 (yPos); the number of the
\* current page; the cards drawn so far; and the footers drawn so far, each
\* with its page and the y of its text.
VARIABLES cards, ppc, findingIdx, yPos, page, drawn, footers

pdfVars == <<cards, ppc, findingIdx, yPos, page, drawn, footers>>

\* The rest of server.ts and pdf.ts: the heights estimated for a pair of
\* findings (pdf.ts line 176); the score of the report rendered and the
\* colour chosen for it (line 126); chunkCount of POST /api/audit (line 259),
\* the position in that handler and the number of its calls of res.end();
\* the reports submitted to POST /api/report/batch-pdf (line 450), the
\* reports handed to generatePDF there, in the order of the calls, the
\* response, and the position in that handler.
VARIABLES estimated, badgeScore, scoreColor, chunkCount, epc, ends,
          submitted, rendered, response, mpc

otherVars ==
  <<estimated, badgeScore, scoreColor, chunkCount, epc, ends, submitted,
    rendered, response, mpc>>

outerVars == <<batchVars, pdfVars, otherVars>>

vars == <<auditVars, outerVars>>

\* No batch request is being served.
NoBatch ==
  /\ files = <<>>
  /\ bpc = "idle"
  /\ idx = 0
  /\ reports = <<>>
  /\ sent = <<>>
  /\ status = 0
  /\ ended = FALSE
  /\ comparison = Undefined
  /\ inflight = {}
  /\ calls = <<>>

\* No PDF is being generated.
NoPdf ==
  /\ cards = <<>>
  /\ ppc = "idle"
  /\ findingIdx = 0
  /\ yPos = 0
  /\ page = 0
  /\ drawn = <<>>
  /\ footers = <<>>

\* Nothing else is running.
NoOther ==
  /\ estimated = <<>>
  /\ badgeScore = Undefined
  /\ scoreColor = ""
  /\ chunkCount = 0
  /\ epc = "idle"
  /\ ends = 0
  /\ submitted = Undefined
  /\ rendered = <<>>
  /\ response = Undefined
  /\ mpc = "idle"

Clock == 1..MaxClock

Init ==
  /\ \E sc \in Scenarios :
       /\ code = sc.code
       /\ filename = sc.filename
       /\ upstream = sc.chunks
  /\ delivered = <<>>
  /\ pc = "start"
  /\ language = "unknown"
  /\ lines = 0
  /\ fullResponse = <<>>
  /\ observed = <<>>
  /\ jsonMatch = <<>>
  /\ jsonStr = <<>>
  /\ cleaned = <<>>
  /\ cleanedSet = FALSE
  /\ parsed = Undefined
  /\ parseCalls = 0
  /\ report = Undefined
  /\ error = NoError
  /\ NoBatch
  /\ NoPdf
  /\ NoOther

\* A variant of Throw in which the error is swallowed and the function goes
\* on to extraction.
CarryOn(e) == pc' = "locate" /\ error' = error

\* throw e: the promise of auditContract rejects with e.
Throw(e) == pc' = "thrown" /\ error' = e

\* Lines 128-129.
Start ==
  /\ pc = "start"
  /\ language' = detectLanguage(code, filename)
  /\ lines' = CountLines(code)
  /\ pc' = "create"
  /\ UNCHANGED <<code, filename, upstream, delivered, fullResponse, observed, jsonMatch,
                 jsonStr, cleaned, cleanedSet, parsed, parseCalls, report, error>>
  /\ UNCHANGED outerVars

\* Lines 133-141: the request is accepted and the stream opens.
CreateStream ==
  /\ pc = "create"
  /\ pc' = "stream"
  /\ UNCHANGED <<code, filename, upstream, delivered, language, lines, fullResponse,
                 observed, jsonMatch, jsonStr, cleaned, cleanedSet, parsed,
                 parseCalls, report, error>>
  /\ UNCHANGED outerVars

\* Lines 133-141: the awaited create call rejects.
CreateFail ==
  /\ pc = "create"
  /\ Throw(TransportError)
  /\ UNCHANGED <<code, filename, upstream, delivered, language, lines, fullResponse,
                 observed, jsonMatch, jsonStr, cleaned, cleanedSet, parsed,
                 parseCalls, report>>
  /\ UNCHANGED outerVars

\* Lines 143-147: one iteration of the for await loop, but for what the
\* observer does when it is called.
StreamChunkStep ==
  /\ pc = "stream"
  /\ upstream # <<>>
  /\ LET delta == DeltaOf(Head(upstream))
     IN  /\ fullResponse' = fullResponse \o delta
         /\ observed' = Notify(observed, delta)
         /\ delivered' = Append(delivered,
                                [content |-> Head(upstream),
                                 seen    |-> IF Len(observed') > Len(observed)
                                             THEN Str(fullResponse')
                                             ELSE Undefined])
  /\ upstream' = Tail(upstream)
  /\ UNCHANGED <<code, filename, pc, language, lines, jsonMatch, jsonStr,
                 cleaned, cleanedSet, parsed, parseCalls, report, error>>

\* Lines 143-147 with an observer that changes nothing, as the () => {} of
\* the batch handler.
StreamChunk ==
  /\ StreamChunkStep
  /\ UNCHANGED outerVars

\* Lines 143-147: the stream throws while the loop awaits the next chunk.
StreamFail ==
  /\ pc = "stream"
  /\ Throw(TransportError)
  /\ UNCHANGED <<code, filename, upstream, delivered, language, lines, fullResponse,
                 observed, jsonMatch, jsonStr, cleaned, cleanedSet, parsed,
                 parseCalls, report>>
  /\ UNCHANGED outerVars

\* Lines 143-147: the stream completes and the loop ends.
StreamEnd ==
  /\ pc = "stream"
  /\ upstream = <<>>
  /\ pc' = "locate"
  /\ UNCHANGED <<code, filename, upstream, delivered, language, lines, fullResponse,
                 observed, jsonMatch, jsonStr, cleaned, cleanedSet, parsed,
                 parseCalls, report, error>>
  /\ UNCHANGED outerVars

\* Lines 150-155.
Locate ==
  /\ pc = "locate"
  /\ LET m == MatchObject(fullResponse)
     IN  IF m.matched
         THEN /\ jsonMatch' = m.text
              /\ pc' = "sanitize"
              /\ error' = error
         ELSE /\ jsonMatch' = jsonMatch
              /\ Throw(ExtractionError(fullResponse))
  /\ UNCHANGED <<code, filename, upstream, delivered, language, lines, fullResponse,
                 observed, jsonStr, cleaned, cleanedSet, parsed, parseCalls,
                 report>>
  /\ UNCHANGED outerVars

\* Lines 159-162.
Sanitize ==
  /\ pc = "sanitize"
  /\ jsonStr' = SanitizeStrings(jsonMatch)
  /\ pc' = "parse"
  /\ UNCHANGED <<code, filename, upstream, delivered, language, lines, fullResponse,
                 observed, jsonMatch, cleaned, cleanedSet, parsed, parseCalls,
                 report, error>>
  /\ UNCHANGED outerVars

\* Lines 166-168: the first JSON.parse; a SyntaxError enters the catch block.
Parse ==
  /\ pc = "parse"
  /\ LET r == JSONParse(jsonStr)
     IN  /\ parsed' = r.val
         /\ pc' = IF r.ok THEN "assemble" ELSE "cleanup"
  /\ parseCalls' = parseCalls + 1
  /\ UNCHANGED <<code, filename, upstream, delivered, language, lines, fullResponse,
                 observed, jsonMatch, jsonStr, cleaned, cleanedSet, report, error>>
  /\ UNCHANGED outerVars

\* Lines 170-175.
Cleanup ==
  /\ pc = "cleanup"
  /\ cleaned' = StripControls(jsonStr)
  /\ cleanedSet' = TRUE
  /\ pc' = "retry"
  /\ UNCHANGED <<code, filename, upstream, delivered, language, lines, fullResponse,
                 observed, jsonMatch, jsonStr, parsed, parseCalls, report, error>>
  /\ UNCHANGED outerVars

\* Lines 176-180: the second JSON.parse; a SyntaxError is replaced by the
\* Error of line 179.
RetryParse ==
  /\ pc = "retry"
  /\ LET r == JSONParse(cleaned)
     IN  IF r.ok
         THEN /\ parsed' = r.val
              /\ pc' = "assemble"
              /\ error' = error
         ELSE /\ parsed' = parsed
              /\ Throw(MalformedPayloadError(fullResponse, jsonStr))
  /\ parseCalls' = parseCalls + 1
  /\ UNCHANGED <<code, filename, upstream, delivered, language, lines, fullResponse,
                 observed, jsonMatch, jsonStr, cleaned, cleanedSet, report>>
  /\ UNCHANGED outerVars

\* Lines 183-201.
Assemble ==
  /\ pc = "assemble"
  /\ LET m == MapFindings(parsed)
     IN  IF ~m.ok
         THEN /\ report' = report
              /\ Throw(MapTypeError)
         ELSE IF Score(parsed).t = "throw"
         THEN /\ report' = report
              /\ Throw(ConversionTypeError)
         ELSE /\ \E now \in Clock :
                   report' = AssembleReport(parsed, m.val, filename, language,
                                            lines, now)
              /\ pc' = "returned"
              /\ error' = error
  /\ UNCHANGED <<code, filename, upstream, delivered, language, lines, fullResponse,
                 observed, jsonMatch, jsonStr, cleaned, cleanedSet, parsed,
                 parseCalls>>
  /\ UNCHANGED outerVars

Next ==
  \/ Start
  \/ CreateStream
  \/ CreateFail
  \/ StreamChunk
  \/ StreamFail
  \/ StreamEnd
  \/ Locate
  \/ Sanitize
  \/ Parse
  \/ Cleanup
  \/ RetryParse
  \/ Assemble

Spec == Init /\ [][Next]_vars

(***************************************************************************)
(* Properties                                                              *)
(***************************************************************************)
\* The payload's value of score, as parsed.
PayloadScore == GetProperty(parsed, KeyScore)

\* The tags of the values whose typeof is "number".
NumberTypes == {"num", "dec", "inf", "nan"}

\* C1: every report that auditContract returns has a score that is a number
\* with 0 <= score <= 100, whatever the payload carries in its score field.
C1_ScoreInRange ==
  pc = "returned" =>
    /\ report.score.t \in {"num", "dec"}
    /\ ~NumberLess(report.score, Num(0))
    /\ ~NumberLess(Num(100), report.score)

\* C2: a payload whose score is absent or is not a number yields a report
\* whose score is exactly 50.
C2_NonNumericScoreIsFifty ==
  (pc = "returned" /\ PayloadScore.t \notin NumberTypes) =>
    report.score = Num(50)

\* C3: a payload whose score is the number v yields a report whose score is
\* min(100, max(0, v)); 0 is passed through unchanged.
C3_NumericScoreClamped ==
  (pc = "returned" /\ PayloadScore.t \in NumberTypes) =>
    report.score = IF NumberLess(PayloadScore, Num(0)) THEN Num(0)
                   ELSE IF NumberLess(Num(100), PayloadScore) THEN Num(100)
                   ELSE PayloadScore

\* The payload's findings, as parsed, where they are an array.
PayloadFindings == GetProperty(parsed, KeyFindings)

\* "TON-" and k as three decimal digits, for 1 <= k <= 999.
ThreeDigitId(k) ==
  <<"T", "O", "N", "-", DigitChar(k \div 100), DigitChar((k \div 10) % 10),
    DigitChar(k % 10)>>

\* C4: the report has one finding per finding of the payload, in payload
\* order; the k-th has id "TON-" and k zero-padded to three digits, whatever
\* its severity and whatever id the payload gave it, and its other properties
\* are the payload's.
C4_FindingIdsSequential ==
  pc = "returned" =>
    LET fs  == report.findings.v
        raw == IF PayloadFindings.t = "arr" THEN PayloadFindings.v ELSE <<>>
    IN  /\ Len(fs) = Len(raw)
        /\ \A k \in 1..Len(fs) :
             /\ GetProperty(fs[k], KeyId) = Str(ThreeDigitId(k))
             /\ raw[k].t = "obj" =>
                  \A n \in 1..Len(raw[k].v) :
                    raw[k].v[n].k # KeyId =>
                      GetProperty(fs[k], raw[k].v[n].k) = raw[k].v[n].v
        /\ \A j, k \in 1..Len(fs) :
             j # k => GetProperty(fs[j], KeyId) # GetProperty(fs[k], KeyId)

\* A report of two findings of different severity, one of which the payload
\* gave an id of its own.
C4_Witness ==
  /\ pc = "returned"
  /\ Len(report.findings.v) >= 2
  /\ \E j, k \in 1..Len(PayloadFindings.v) :
       /\ j < k
       /\ HasProperty(PayloadFindings.v[j], KeyId)
       /\ GetProperty(PayloadFindings.v[j], KeyId) # GetProperty(report.findings.v[j], KeyId)
       /\ HasProperty(PayloadFindings.v[k], <<"s", "e", "v", "e", "r", "i", "t", "y">>)

\* The number of lines of the text that hold a character that is not
\* whitespace: the positions of the first such character of a line.
NonBlankLineCount(text) ==
  Cardinality({i \in 1..Len(text) :
                 /\ text[i] \notin JsWhitespace
                 /\ \A j \in 1..(i - 1) :
                      (\A m \in j..(i - 1) : text[m] # LF) => text[j] \in JsWhitespace})

\* C5: contractName, language and linesOfCode of the report are functions of
\* the filename and the source code alone, whatever the payload holds, and
\* linesOfCode is the number of non-blank lines of the source.
C5_InputFieldsFromInputOnly ==
  pc = "returned" =>
    /\ report.contractName = ContractName(filename)
    /\ report.language = detectLanguage(code, filename)
    /\ report.linesOfCode = NonBlankLineCount(code)

\* A report for a payload that carries a contractName, a language and a
\* linesOfCode of its own, all different from the report's.
C5_Witness ==
  /\ pc = "returned"
  /\ HasProperty(parsed, <<"c", "o", "n", "t", "r", "a", "c", "t", "N", "a", "m", "e">>)
  /\ GetProperty(parsed, <<"c", "o", "n", "t", "r", "a", "c", "t", "N", "a", "m", "e">>)
       # report.contractName
  /\ GetProperty(parsed, <<"l", "i", "n", "e", "s", "O", "f", "C", "o", "d", "e">>)
       # Num(report.linesOfCode)
  /\ GetProperty(parsed, <<"l", "a", "n", "g", "u", "a", "g", "e">>) = Str(<<"t", "a", "c", "t">>)
  /\ report.language = "func"
  /\ report.linesOfCode = 2

\* Whether the Locate stage (lines 150-153) has run.
LocateRan ==
  \/ pc \in {"sanitize", "parse", "cleanup", "retry", "assemble", "returned"}
  \/ pc = "thrown" /\ error.kind \in {"extraction", "malformed", "type"}

\* C6: the candidate is the part of the buffer from its first "{" to its last
\* "}", both included; a buffer without any "{" fails with the extraction
\* error, no parse having been attempted and no report produced.
C6_LocateFirstToLast ==
  LocateRan =>
    /\ error.kind # "extraction" =>
         \E i, j \in 1..Len(fullResponse) :
           /\ fullResponse[i] = "{"
           /\ \A m \in 1..(i - 1) : fullResponse[m] # "{"
           /\ fullResponse[j] = "}"
           /\ \A m \in (j + 1)..Len(fullResponse) : fullResponse[m] # "}"
           /\ i < j
           /\ jsonMatch = [m \in 1..(j - i + 1) |-> fullResponse[i + m - 1]]
    /\ (\A m \in 1..Len(fullResponse) : fullResponse[m] # "{") =>
         /\ pc = "thrown"
         /\ error.kind = "extraction"
         /\ parseCalls = 0
         /\ parsed = Undefined
         /\ report = Undefined

\* A candidate taken from a buffer with text before its first "{", text
\* after its last "}", and a "}" inside.
C6_Witness ==
  /\ pc = "sanitize"
  /\ fullResponse[1] # "{"
  /\ fullResponse[Len(fullResponse)] # "}"
  /\ \E m \in 2..(Len(jsonMatch) - 1) : jsonMatch[m] = "}"

\* Whether extraction (lines 150-181) has come to its end, with a parsed
\* payload or with an error of its own.
ExtractionDone ==
  \/ pc \in {"assemble", "returned"}
  \/ pc = "thrown" /\ error.kind \in {"extraction", "malformed", "type"}

\* C7, as claimed: for every buffer that is strict JSON, extraction yields the
\* value that parsing the buffer directly yields.
C7_StrictJsonRoundTrip ==
  (ExtractionDone /\ JSONParse(fullResponse).ok) =>
    /\ error.kind \notin {"extraction", "malformed"}
    /\ parsed = JSONParse(fullResponse).val

\* C7, amended: for every buffer that is a strict JSON object (with or
\* without JSON whitespace around it), extraction yields the value that
\* parsing the buffer directly yields, by the first parse and without the
\* aggressive cleanup.
C7_StrictJsonObjectRoundTrip ==
  (ExtractionDone /\ JSONParse(fullResponse).ok
     /\ JSONParse(fullResponse).val.t = "obj") =>
    /\ error.kind \notin {"extraction", "malformed"}
    /\ parsed = JSONParse(fullResponse).val
    /\ parseCalls = 1
    /\ ~cleanedSet

\* A strict JSON object with whitespace around it and between its tokens and
\* an escape in a string, extracted.
C7_Witness ==
  /\ pc = "assemble"
  /\ JSONParse(fullResponse).ok
  /\ Len(jsonMatch) < Len(fullResponse)
  /\ \E i \in 1..Len(jsonMatch) : jsonMatch[i] = LF
  /\ \E i \in 1..Len(jsonMatch) : jsonMatch[i] = BACKSLASH
  /\ Len(parsed.v) > 0

\* The escape that stage 2 writes for a control character.
EscapeOf(c) ==
  CASE c = LF -> <<BACKSLASH, "n">> [] c = CR -> <<BACKSLASH, "r">>
    [] c = TAB -> <<BACKSLASH, "t">>

\* A left-to-right reading of a text as JSON tokens: the reader is outside a
\* string ("out"), inside one ("in"), or inside one and just past a backslash
\* ("esc").  ReadChar gives the mode after a character is read.
ReadChar(mode, c) ==
  CASE mode = "out" -> IF c = QUOTE THEN "in" ELSE "out"
    [] mode = "esc" -> "in"
    [] mode = "in"  -> IF c = QUOTE THEN "out"
                       ELSE IF c = BACKSLASH THEN "esc" ELSE "in"

RECURSIVE ModesFrom(_, _, _, _)
\* The modes before each of s[lo..hi], read from the given mode, by halves.
ModesFrom(s, lo, hi, mode) ==
  IF lo > hi THEN <<>>
  ELSE IF lo = hi THEN <<mode>>
  ELSE LET mid  == (lo + hi) \div 2
           left == ModesFrom(s, lo, mid, mode)
       IN  left \o ModesFrom(s, mid + 1, hi, ReadChar(left[Len(left)], s[mid]))

\* Modes(s)[i]: the reader's mode just before it reads s[i].
Modes(s) == ModesFrom(s, 1, Len(s), "out")

\* The positions of s inside a string where a raw character of S stands.
RawInString(s, S) ==
  LET m == Modes(s) IN {i \in 1..Len(s) : m[i] = "in" /\ s[i] \in S}

\* s with the raw characters of S that stand inside a string escaped, and
\* every other character as it is.
EscapedInStrings(s, S) ==
  LET raw == RawInString(s, S)
  IN  Flatten([i \in 1..Len(s) |-> IF i \in raw THEN EscapeOf(s[i]) ELSE <<s[i]>>])

RECURSIVE HoldsChar(_, _)
\* Whether a string of the value x, a key included, holds the character c.
HoldsChar(x, c) ==
  CASE x.t = "str" -> \E i \in 1..Len(x.v) : x.v[i] = c
    [] x.t = "arr" -> \E i \in 1..Len(x.v) : HoldsChar(x.v[i], c)
    [] x.t = "obj" -> \E i \in 1..Len(x.v) :
                        \/ \E j \in 1..Len(x.v[i].k) : x.v[i].k[j] = c
                        \/ HoldsChar(x.v[i].v, c)
    [] OTHER -> FALSE

\* Whether the first JSON.parse (lines 166-168) has run.
ParseRan ==
  \/ pc \in {"cleanup", "retry", "assemble", "returned"}
  \/ pc = "thrown" /\ error.kind \in {"malformed", "type"}

\* The candidate is a JSON object but for raw newlines inside its strings.
NewlineCandidate ==
  /\ RawInString(jsonMatch, {LF}) # {}
  /\ JSONParse(EscapedInStrings(jsonMatch, {LF})).ok

\* C8: a candidate that is a JSON object but for literal newlines inside its
\* strings is parsed by the first parse, without the aggressive cleanup, to
\* the value of the object, whose strings hold the newlines.
C8_NewlineInStringParses ==
  (ParseRan /\ NewlineCandidate) =>
    /\ pc \in {"assemble", "returned"} \/ (pc = "thrown" /\ error.kind = "type")
    /\ parseCalls = 1
    /\ ~cleanedSet
    /\ parsed = JSONParse(EscapedInStrings(jsonMatch, {LF})).val
    /\ HoldsChar(parsed, LF)

\* Such a candidate, parsed: its summary holds a newline after another
\* character, and whitespace stands between its tokens.
C8_Witness ==
  /\ pc = "assemble"
  /\ NewlineCandidate
  /\ jsonMatch[2] \in JsonWhitespace
  /\ GetProperty(parsed, KeySummary).t = "str"
  /\ Len(GetProperty(parsed, KeySummary).v) = 2
  /\ GetProperty(parsed, KeySummary).v[2] = LF

\* Whether Sanitize (lines 159-162) has run.
SanitizeRan ==
  \/ pc \in {"parse", "cleanup", "retry", "assemble", "returned"}
  \/ pc = "thrown" /\ error.kind \in {"malformed", "type"}

\* The number of backslashes that stand in a row just before position j.
BackslashesBefore(s, j) ==
  IF j = 1 THEN 0
  ELSE IF s[j - 1] # BACKSLASH THEN 0
  ELSE LET others == {k \in 1..(j - 1) : s[k] # BACKSLASH}
       IN  IF others = {} THEN j - 1
           ELSE j - 1 - (CHOOSE k \in others : \A m \in others : m <= k)

\* A quote or backslash is escaped when an odd number of backslashes stands
\* before it.
Unescaped(s, j) == BackslashesBefore(s, j) % 2 = 0

\* The quote that closes a string span opened by the quote at q: the first
\* unescaped quote after q, unless a backslash before it escapes a line
\* terminator; 0 if there is no such quote.
SpanClose(s, q) ==
  LET closers == {e \in (q + 1)..Len(s) : s[e] = QUOTE /\ Unescaped(s, e)}
      e       == CHOOSE c \in closers : \A d \in closers : c <= d
  IN  IF closers = {} THEN 0
      ELSE IF \E k \in (q + 1)..(e - 1) :
                /\ s[k] = BACKSLASH
                /\ Unescaped(s, k)
                /\ s[k + 1] \in LineTerminators
           THEN 0
      ELSE e

RECURSIVE SpansFrom(_, _)
\* The string spans from position i on, read left to right without overlap;
\* close[q] is the closing quote of a span opened at q, or 0.
SpansFrom(close, i) ==
  LET starts == {q \in i..Len(close) : close[q] > 0}
      q      == CHOOSE a \in starts : \A b \in starts : a <= b
  IN  IF starts = {} THEN {}
      ELSE {<<q, close[q]>>} \cup SpansFrom(close, close[q] + 1)

\* The quoted-string spans of s, each as <<opening quote, closing quote>>.
Spans(s) ==
  SpansFrom([q \in 1..Len(s) |-> IF s[q] = QUOTE THEN SpanClose(s, q) ELSE 0], 1)

\* The positions of s that lie inside a string span.
InsideSpans(s) ==
  LET spans == Spans(s)
  IN  {i \in 1..Len(s) : \E sp \in spans : sp[1] < i /\ i < sp[2]}

\* C9: stage 2 writes the candidate with the newlines, carriage returns and
\* tabs that lie inside a quoted-string span (an escaped quote does not end
\* a span) replaced by their two-character escapes, and every other
\* character, structural whitespace included, as it stands; in a
\* candidate that is JSON but for such characters in its strings, the spans
\* are the strings.
C9_OnlyInsideStringSpans ==
  SanitizeRan =>
    LET inside   == InsideSpans(jsonMatch)
        replaced == {i \in inside : jsonMatch[i] \in {LF, CR, TAB}}
        offset   == [i \in 1..Len(jsonMatch) |->
                       Cardinality({r \in replaced : r < i})]
    IN  /\ Len(jsonStr) = Len(jsonMatch) + Cardinality(replaced)
        /\ \A i \in 1..Len(jsonMatch) :
             IF i \in replaced
             THEN /\ jsonStr[i + offset[i]] = BACKSLASH
                  /\ jsonStr[i + offset[i] + 1] =
                       (CASE jsonMatch[i] = LF -> "n"
                          [] jsonMatch[i] = CR -> "r"
                          [] jsonMatch[i] = TAB -> "t")
             ELSE jsonStr[i + offset[i]] = jsonMatch[i]
        /\ JSONParse(EscapedInStrings(jsonMatch, {LF, CR, TAB})).ok =>
             jsonStr = EscapedInStrings(jsonMatch, {LF, CR, TAB})

\* A candidate, sanitized, with a newline between its tokens that stays and a
\* newline inside a string, after an escaped quote, that is replaced.
C9_Witness ==
  /\ pc = "parse"
  /\ jsonMatch[2] = LF
  /\ jsonStr[2] = LF
  /\ \E i \in 3..(Len(jsonMatch) - 2) :
       /\ jsonMatch[i] = BACKSLASH
       /\ jsonMatch[i + 1] = QUOTE
       /\ jsonMatch[i + 2] = LF
       /\ i \in InsideSpans(jsonMatch)
       /\ (i + 2) \in InsideSpans(jsonMatch)
  /\ Len(jsonStr) = Len(jsonMatch) + 1

\* The characters stage 4 deletes: the ASCII controls other than the three it
\* escapes.
DeletedControls == (C0Controls \cup {DEL}) \ {LF, CR, TAB}

\* s without the characters stage 4 deletes.
WithoutDeleted(s) == SelectSeq(s, LAMBDA c : c \notin DeletedControls)

\* s with every newline, carriage return and tab replaced by its escape,
\* inside strings and outside.
EscapedEverywhere(s) ==
  Flatten([i \in 1..Len(s) |->
             IF s[i] \in {LF, CR, TAB} THEN EscapeOf(s[i]) ELSE <<s[i]>>])

\* C10: the aggressive cleanup runs only after the parse of the sanitized
\* candidate has failed, and over the whole candidate (newline, carriage
\* return and tab escaped, the other ASCII controls deleted); the parse is
\* retried once and no more; a payload parsed comes from the first parse, or
\* from the retry after a cleanup; a retry that fails ends the audit with
\* the malformed-payload error, which carries the first 500 characters of the
\* aggregated buffer, and without a report.
C10_StagedFallback ==
  /\ parseCalls \in {0, 1, 2}
  /\ pc = "cleanup" => parseCalls = 1 /\ ~cleanedSet /\ ~JSONParse(jsonStr).ok
  /\ pc = "retry" => parseCalls = 1 /\ cleanedSet
  /\ cleanedSet =>
       /\ parseCalls \in {1, 2}
       /\ ~JSONParse(jsonStr).ok
       /\ cleaned = EscapedEverywhere(WithoutDeleted(jsonStr))
       /\ \A i \in 1..Len(cleaned) : cleaned[i] \notin C0Controls \cup {DEL}
  /\ parseCalls = 2 => cleanedSet /\ pc \notin {"cleanup", "retry", "parse"}
  /\ (pc \in {"assemble", "returned"} \/ (pc = "thrown" /\ error.kind = "type")) =>
       IF cleanedSet
       THEN parseCalls = 2 /\ JSONParse(cleaned).ok
              /\ parsed = JSONParse(cleaned).val
       ELSE parseCalls = 1 /\ JSONParse(jsonStr).ok
              /\ parsed = JSONParse(jsonStr).val
  /\ (parseCalls = 2 /\ ~JSONParse(cleaned).ok) =>
       pc = "thrown" /\ error.kind = "malformed"
  /\ (pc = "thrown" /\ error.kind = "malformed") =>
       /\ parseCalls = 2
       /\ cleanedSet
       /\ ~JSONParse(cleaned).ok
       /\ Len(error.text) = Min(FirstCharsLength, Len(fullResponse))
       /\ \A i \in 1..Len(error.text) : error.text[i] = fullResponse[i]
       /\ report = Undefined

\* An audit that failed with the malformed-payload error on a buffer longer
\* than 500 characters whose candidate starts after the 500th: the message
\* holds 500 characters, none of them of the candidate.
C10_Witness ==
  /\ pc = "thrown"
  /\ error.kind = "malformed"
  /\ parseCalls = 2
  /\ Len(fullResponse) > FirstCharsLength
  /\ Len(error.text) = FirstCharsLength
  /\ jsonMatch[1] = "{"
  /\ \A i \in 1..Len(error.text) : error.text[i] # "{"

\* C11: assembly (lines 183-201) never throws: an audit whose extraction
\* produced a parsed object does not end in an error of the assembler.
C11_AssemblerTotal ==
  (pc = "thrown" /\ parseCalls > 0 /\ error.kind # "malformed") =>
    error.kind # "type"

(***************************************************************************)
(* server.ts: buildComparison (lines 339-363)                              *)
(***************************************************************************)
\* Function.prototype.toString of the built-in function called name.
NativeFunctionSource(name) ==
  <<"f", "u", "n", "c", "t", "i", "o", "n", " ">> \o name
    \o <<"(", ")", " ", "{", " ", "[", "n", "a", "t", "i", "v", "e", " ", "c",
         "o", "d", "e", "]", " ", "}">>
ObjectFunctionSource == NativeFunctionSource(<<"O", "b", "j", "e", "c", "t">>)
\* The methods of Object.prototype, each a function of its own name.
ObjectPrototypeMethods ==
  {<<"_", "_", "d", "e", "f", "i", "n", "e", "G", "e", "t", "t", "e", "r",
     "_", "_">>,
   <<"_", "_", "d", "e", "f", "i", "n", "e", "S", "e", "t", "t", "e", "r",
     "_", "_">>,
   <<"h", "a", "s", "O", "w", "n", "P", "r", "o", "p", "e", "r", "t", "y">>,
   <<"_", "_", "l", "o", "o", "k", "u", "p", "G", "e", "t", "t", "e", "r",
     "_", "_">>,
   <<"_", "_", "l", "o", "o", "k", "u", "p", "S", "e", "t", "t", "e", "r",
     "_", "_">>,
   <<"i", "s", "P", "r", "o", "t", "o", "t", "y", "p", "e", "O", "f">>,
   <<"p", "r", "o", "p", "e", "r", "t", "y", "I", "s", "E", "n", "u", "m",
     "e", "r", "a", "b", "l", "e">>,
   <<"t", "o", "S", "t", "r", "i", "n", "g">>,
   <<"v", "a", "l", "u", "e", "O", "f">>,
   <<"t", "o", "L", "o", "c", "a", "l", "e", "S", "t", "r", "i", "n", "g">>}
ObjectObjectText ==
  <<"[", "o", "b", "j", "e", "c", "t", " ", "O", "b", "j", "e", "c", "t",
    "]">>
KeyConstructor == <<"c", "o", "n", "s", "t", "r", "u", "c", "t", "o", "r">>
KeyProto == <<"_", "_", "p", "r", "o", "t", "o", "_", "_">>
KeyCategory == <<"c", "a", "t", "e", "g", "o", "r", "y">>
KeySeverity == <<"s", "e", "v", "e", "r", "i", "t", "y">>
SeverityCritical == <<"c", "r", "i", "t", "i", "c", "a", "l">>
SeverityHigh == <<"h", "i", "g", "h">>
EMDASH == "U+2014"
Placeholder == <<EMDASH>>
CommonLimit == 5

\* a - b: NaN if either operand converts to NaN; the TypeError if a
\* conversion threw.
Difference(x, y) ==
  IF x.t = "throw" \/ y.t = "throw" THEN TypeErrorThrown
  ELSE IF x.t = "nan" \/ y.t = "nan" THEN NaN ELSE NumberSum(x, y, TRUE)

Subtract(a, b) == Difference(ToNumber(a), ToNumber(b))

\* SortCompare: what Array.prototype.sort reads of the Number v its
\* comparator returned, -1 for v < 0, 1 for v > 0 and 0 otherwise; NaN
\* counts as +0.
SortCompare(v) ==
  CASE v.t = "nan" -> 0
    [] v.t = "num" -> IF v.v < 0 THEN -1 ELSE IF v.v > 0 THEN 1 ELSE 0
    [] OTHER       -> IF v.neg THEN -1 ELSE 1

\* Whether the comparator whose results on the elements of a are c[i][j]
\* is a consistent comparator for them (ECMAScript 23.1.3.30): equality
\* under it is symmetric and transitive, and so are its two strict orders.
ConsistentComparator(a, c) ==
  LET I == 1..Len(a)
  IN  /\ \A x \in I : c[x][x] = 0
      /\ \A x, y \in I :
           (c[x][y] = 0 => c[y][x] = 0) /\ (c[x][y] < 0 <=> c[y][x] > 0)
      /\ \A x, y, z \in I :
           /\ (c[x][y] = 0 /\ c[y][z] = 0) => c[x][z] = 0
           /\ (c[x][y] < 0 /\ c[y][z] < 0) => c[x][z] < 0
           /\ (c[x][y] > 0 /\ c[y][z] > 0) => c[x][z] > 0

\* The stable sort of a under a consistent comparator: an element goes
\* after those that compare below it and after the earlier ones that
\* compare equal to it.
StableSort(a, c) ==
  LET rank(i) == 1 + Cardinality({j \in 1..Len(a) :
                                    \/ c[j][i] < 0
                                    \/ c[j][i] = 0 /\ j < i})
  IN  [r \in 1..Len(a) |-> a[CHOOSE i \in 1..Len(a) : rank(i) = r]]

\* The orders of a: one for each permutation of its positions.
Orders(a) ==
  {[r \in 1..Len(a) |-> a[p[r]]] :
     p \in {q \in [1..Len(a) -> 1..Len(a)] :
              \A i, j \in 1..Len(a) : q[i] = q[j] => i = j}}

\* a.sort(comparator), c[i][j] being what sort takes from the comparator
\* for a[i] and a[j]: the results the call may have.  Under a consistent
\* comparator it is the stable sort; under any other the order is
\* implementation-defined.
SortOutcomes(a, c) ==
  IF ConsistentComparator(a, c) THEN {StableSort(a, c)} ELSE Orders(a)

\* a ?? b
Coalesce(a, b) == IF a.t \in {"undefined", "null"} THEN b ELSE a

\* a + 1: the text of a and "1" if a is a string or, as an array or an
\* object is, converts to one; the sum of ToNumber(a) and 1 otherwise.
Increment(x) == IF x.t = "nan" THEN NaN ELSE NumberSum(x, Num(1), FALSE)

PlusOne(a) ==
  IF ToPrimitiveThrows(a) THEN TypeErrorThrown
  ELSE IF a.t \in {"str", "arr", "obj"} THEN Str(ToStringValue(a) \o <<"1">>)
  ELSE Increment(ToNumber(a))

\* catCounts[key] for the object literal {} with the own properties counts:
\* a name that {} does not own is looked up in Object.prototype, where
\* constructor is the function Object, each method a function of its name
\* and __proto__ the prototype itself; each is given as the string that +
\* converts it to.
ReadCount(counts, key) ==
  IF \E i \in 1..Len(counts) : counts[i].k = key
  THEN counts[CHOOSE i \in 1..Len(counts) : counts[i].k = key].v
  ELSE IF key = KeyConstructor THEN Str(ObjectFunctionSource)
  ELSE IF key \in ObjectPrototypeMethods THEN Str(NativeFunctionSource(key))
  ELSE IF key = KeyProto THEN Str(ObjectObjectText)
  ELSE Undefined

\* catCounts[key] = v: __proto__ is an accessor of Object.prototype whose
\* setter ignores a value that is not an object, so no property is made.
WriteCount(counts, key, v) ==
  IF key = KeyProto THEN counts ELSE PutProperty(counts, key, v)

RECURSIVE CountCategories(_, _)
\* Lines 345-348: the loop over allFindings from the finding fs[1] on, counts
\* the own properties of catCounts so far.  f.category is converted to a
\* property key, and the loop ends with the TypeError if that throws.
CountCategories(fs, counts) ==
  IF Len(fs) = 0 THEN counts
  ELSE IF ToPrimitiveThrows(GetProperty(fs[1], KeyCategory)) THEN TypeErrorThrown
  ELSE LET key == ToStringValue(GetProperty(fs[1], KeyCategory))
           v   == PlusOne(Coalesce(ReadCount(counts, key), Num(0)))
       IN  CountCategories(Tail(fs), WriteCount(counts, key, v))

\* (a, b) => a.score - b.score
ScoreDifference(a, b) == Subtract(a.score, b.score)

\* (a, b) => b[1] - a[1] on the entries [key, count]
CountDifference(a, b) == Subtract(b.v, a.v)

\* What sort takes from each comparator for the elements of a.
ScoreComparisons(a) ==
  [i \in 1..Len(a) |-> [j \in 1..Len(a) |-> SortCompare(ScoreDifference(a[i], a[j]))]]
CountComparisons(a) ==
  [i \in 1..Len(a) |-> [j \in 1..Len(a) |-> SortCompare(CountDifference(a[i], a[j]))]]

\* Whether the sort of a by the Numbers its elements give under the field
\* read by of throws: sort does not call the comparator for fewer than two
\* elements, and for two or more it compares every element with another.
SortThrows(a, of(_)) ==
  Len(a) >= 2 /\ \E i \in 1..Len(a) : ToPrimitiveThrows(of(a[i]))

ScoreOf(r) == r.score
CountOf(e) == e.v

\* .sort((a, b) => a.score - b.score) and .sort((a, b) => b[1] - a[1])
SortByScore(a) ==
  IF Len(a) < 2 THEN {a}
  ELSE IF SortThrows(a, ScoreOf) THEN {TypeErrorThrown}
  ELSE SortOutcomes(a, ScoreComparisons(a))
SortByCount(a) ==
  IF Len(a) < 2 THEN {a}
  ELSE IF SortThrows(a, CountOf) THEN {TypeErrorThrown}
  ELSE SortOutcomes(a, CountComparisons(a))

\* reports.map((r) => ({ contractName, score, overallRisk })) (line 341)
RankingEntries(rs) ==
  [i \in 1..Len(rs) |-> [contractName |-> rs[i].contractName,
                         score        |-> rs[i].score,
                         overallRisk  |-> rs[i].overallRisk]]

\* reports.flatMap((r) => r.findings) (line 344)
AllFindings(rs) == Flatten([i \in 1..Len(rs) |-> rs[i].findings.v])

\* The number of findings whose severity is strictly equal to the text sev.
CountSeverity(fs, sev) ==
  Cardinality({i \in 1..Len(fs) :
                 /\ GetProperty(fs[i], KeySeverity).t = "str"
                 /\ GetProperty(fs[i], KeySeverity).v = sev})

\* riskRanking[k]?.contractName ?? "—" for the position k (from 1)
NameAt(ranking, k) ==
  IF k \in 1..Len(ranking)
  THEN Coalesce(ranking[k].contractName, Str(Placeholder))
  ELSE Str(Placeholder)

\* The object buildComparison returns, given the results of its two sorts.
Comparison(rs, ranking, entries) ==
  [riskRanking      |-> ranking,
   totalFindings    |-> Len(AllFindings(rs)),
   criticalCount    |-> CountSeverity(AllFindings(rs), SeverityCritical),
   highCount        |-> CountSeverity(AllFindings(rs), SeverityHigh),
   mostVulnerable   |-> NameAt(ranking, 1),
   safest           |-> NameAt(ranking, Len(ranking)),
   commonCategories |-> [i \in 1..Min(CommonLimit, Len(entries)) |->
                           [category |-> entries[i].k, count |-> entries[i].v]]]

\* Whether buildComparison(reports) throws: in the sort of line 342 or in
\* the loop of lines 346-348.  The counts are numbers or strings, so the
\* sort of line 350 does not.
ComparisonThrows(rs) ==
  \/ SortThrows(RankingEntries(rs), ScoreOf)
  \/ \E i \in 1..Len(AllFindings(rs)) :
       ToPrimitiveThrows(GetProperty(AllFindings(rs)[i], KeyCategory))

\* buildComparison(reports): the values the call may return, or the
\* TypeError it throws.
buildComparison(rs) ==
  IF ComparisonThrows(rs) THEN {TypeErrorThrown}
  ELSE {Comparison(rs, ranking, entries) :
          ranking \in SortByScore(RankingEntries(rs)),
          entries \in SortByCount(CountCategories(AllFindings(rs), <<>>))}

\* A variant of ReportsAfterComparison in which the sort of line 342 is
\* applied to reports itself, without the copy that map makes.
ReportsSortedInPlace(rs) ==
  IF ComparisonThrows(rs) THEN rs ELSE CHOOSE o \in SortByScore(rs) : TRUE

\* The array reports after buildComparison(reports) has returned: map and
\* flatMap build new arrays and the sorts work on those, so reports is as it
\* was.
ReportsAfterComparison(rs) == rs

(***************************************************************************)
(* server.ts: POST /api/audit/batch (lines 365-428)                        *)
(***************************************************************************)
MaxFiles == 3
MinBatch == 2
BadRequest == 400
OkStatus == 200

\* {"category":<cat>,"severity":<sev>}
FindingOf(cat, sev) ==
  <<"{", QUOTE>> \o KeyCategory \o <<QUOTE, ":">> \o cat \o <<",", QUOTE>>
    \o KeySeverity \o <<QUOTE, ":">> \o sev \o <<"}">>

\* {"category":"<cat>","severity":"<sev>"}
FindingText(cat, sev) == FindingOf(Quoted(cat), Quoted(sev))

\* {"score":<score>,"findings":[<findings>]}
PayloadText(score, findings) ==
  <<"{", QUOTE>> \o KeyScore \o <<QUOTE, ":">> \o score \o <<",", QUOTE>>
    \o KeyFindings \o <<QUOTE, ":", "[">> \o JoinTexts(findings, <<",">>)
    \o <<"]", "}">>

\* What the model answers for the uploads of a batch.
PayloadSeventy ==
  PayloadText(<<"7", "0">>, <<FindingText(<<"b">>, SeverityCritical),
                              FindingText(<<"1">>, SeverityHigh)>>)
PayloadTwenty ==
  PayloadText(<<"2", "0">>, <<FindingText(<<"x">>, SeverityHigh),
                              FindingText(<<"y">>, <<"l", "o", "w">>),
                              FindingText(<<"z">>, SeverityHigh)>>)
PayloadObjectScore ==
  PayloadText(<<"{", "}">>,
              <<FindingText(<<"t", "o", "S", "t", "r", "i", "n", "g">>, SeverityHigh)>>)
\* {"summary":"a<U+0001>","overallRisk":1e999,"score":85.5,"findings":[...]}:
\* a payload that parses after the cleanup only, whose overallRisk is
\* Infinity and whose second finding has the number 1 as its severity.
PayloadFraction ==
  <<"{", QUOTE>> \o KeySummary \o <<QUOTE, ":">> \o Quoted(<<"a", SOH>>)
    \o <<",", QUOTE>> \o KeyOverallRisk \o <<QUOTE, ":", "1", "e", "9", "9", "9", ",">>
    \o Tail(PayloadText(<<"8", "5", ".", "5">>,
              <<FindingText(<<"4", "2", "9", "4", "9", "6", "7", "2", "9", "5">>,
                            SeverityHigh),
                FindingOf(Quoted(<<"7">>), <<"1">>)>>))
\* {"score":30,"findings":[{"category":{"toString":1},"severity":"high"}]}:
\* a finding whose category cannot be converted to a property key.
PayloadObjectCategory ==
  PayloadText(<<"3", "0">>,
              <<FindingOf(ObjectText(<<>>, KeyToString, <<"1">>),
                          Quoted(SeverityHigh))>>)
PayloadNeedsCleanup == ObjectText(<<>>, KeySummary, Quoted(<<"a", SOH>>))

Upload(name, text) ==
  [code |-> SampleCode, filename |-> Str(name), chunks |-> <<Str(text)>>]

\* The files of a request: file.originalname is a string.
Uploads ==
  {Upload(<<"a">> \o ExtFc, PayloadSeventy),
   Upload(<<"b">> \o ExtTact, PayloadTwenty),
   Upload(<<"c">> \o ExtFc, PayloadObjectScore),
   Upload(<<"d">> \o ExtFc, PayloadFraction),
   Upload(<<"e">> \o ExtFc, MalformedCandidate),
   Upload(<<"f">> \o ExtFc, <<"n", "o">>),
   Upload(<<"g">> \o ExtFc, PayloadObjectCategory)}
UploadLists == SeqsUpTo(Uploads, MaxFiles)

RECURSIVE WireValue(_)
\* JSON.stringify(x) as the client's JSON.parse reads it: a number that is
\* not finite is written as null wherever it stands, an undefined element
\* of an array as null, and a property whose value is undefined is left
\* out.
WireValue(x) ==
  CASE x.t \in {"nan", "inf"} -> Null
    [] x.t = "arr" ->
         Arr([i \in 1..Len(x.v) |->
                IF x.v[i].t = "undefined" THEN Null ELSE WireValue(x.v[i])])
    [] x.t = "obj" ->
         Obj([i \in 1..Len(SelectSeq(x.v, LAMBDA p : p.v.t # "undefined")) |->
                [k |-> SelectSeq(x.v, LAMBDA p : p.v.t # "undefined")[i].k,
                 v |-> WireValue(SelectSeq(x.v, LAMBDA p : p.v.t # "undefined")[i].v)]])
    [] OTHER -> x

\* A report, and the comparison, as send writes them (line 383).
WireReport(r) ==
  [r EXCEPT !.contractName      = WireValue(r.contractName),
            !.overallRisk       = WireValue(r.overallRisk),
            !.summary           = WireValue(r.summary),
            !.findings          = WireValue(r.findings),
            !.gasAnalysis       = WireValue(r.gasAnalysis),
            !.architectureNotes = WireValue(r.architectureNotes),
            !.score             = WireValue(r.score)]
WireReports(rs) == [i \in 1..Len(rs) |-> WireReport(rs[i])]
WireComparison(c) ==
  [c EXCEPT !.riskRanking =
              [i \in 1..Len(c.riskRanking) |->
                 [contractName |-> WireValue(c.riskRanking[i].contractName),
                  score        |-> WireValue(c.riskRanking[i].score),
                  overallRisk  |-> WireValue(c.riskRanking[i].overallRisk)]],
            !.mostVulnerable = WireValue(c.mostVulnerable),
            !.safest         = WireValue(c.safest),
            !.commonCategories =
              [i \in 1..Len(c.commonCategories) |->
                 [category |-> c.commonCategories[i].category,
                  count    |-> WireValue(c.commonCategories[i].count)]]]

\* send(event, data) (lines 382-383) and res.json(data)
Event(name, data) == [event |-> name, data |-> data]

\* A variant of Settle that leaves the call pending: the loop goes on
\* without awaiting it.
SettleNever(pending, i) == pending

\* await (line 400): the call for index i has settled.
Settle(pending, i) == pending \ {i}

\* reports.length === 0 (line 412)
NoneSucceeded(rs) == Len(rs) = 0

\* A variant of BatchReportOf that counts the audits that succeeded.
BatchReportOfSuccesses(now, fs, rs, c) ==
  [auditedAt      |-> now,
   totalContracts |-> Len(rs),
   reports        |-> WireReports(rs),
   comparison     |-> WireComparison(c)]

\* The object literal of lines 417-422 as it is written to the response; rs
\* is the array reports after buildComparison has returned.
BatchReportOf(now, fs, rs, c) ==
  [auditedAt      |-> now,
   totalContracts |-> Len(fs),
   reports        |-> WireReports(rs),
   comparison     |-> WireComparison(c)]

BatchInit ==
  /\ files \in UploadLists
  /\ bpc = "request"
  /\ idx = 0
  /\ reports = <<>>
  /\ sent = <<>>
  /\ status = 0
  /\ ended = FALSE
  /\ comparison = Undefined
  /\ inflight = {}
  /\ calls = <<>>
  /\ NoPdf
  /\ NoOther
  /\ code = <<>>
  /\ filename = Undefined
  /\ upstream = <<>>
  /\ delivered = <<>>
  /\ pc = "idle"
  /\ language = "unknown"
  /\ lines = 0
  /\ fullResponse = <<>>
  /\ observed = <<>>
  /\ jsonMatch = <<>>
  /\ jsonStr = <<>>
  /\ cleaned = <<>>
  /\ cleanedSet = FALSE
  /\ parsed = Undefined
  /\ parseCalls = 0
  /\ report = Undefined
  /\ error = NoError

\* Lines 369-375: fewer than two files.
BatchReject ==
  /\ bpc = "request"
  /\ Len(files) < MinBatch
  /\ status' = BadRequest
  /\ sent' = Append(sent, Event("json", [error |-> Len(files)]))
  /\ ended' = TRUE
  /\ bpc' = "done"
  /\ UNCHANGED <<files, idx, reports, comparison, inflight, calls>>
  /\ UNCHANGED auditVars
  /\ UNCHANGED <<pdfVars, otherVars>>

\* Lines 377-385: the event stream is opened.
BatchOpen ==
  /\ bpc = "request"
  /\ Len(files) >= MinBatch
  /\ status' = OkStatus
  /\ bpc' = "loop"
  /\ idx' = 0
  /\ reports' = <<>>
  /\ UNCHANGED <<files, sent, ended, comparison, inflight, calls>>
  /\ UNCHANGED auditVars
  /\ UNCHANGED <<pdfVars, otherVars>>

\* Lines 387-400: the loop test, the progress event, and the call of
\* auditContract(code, filename, () => {}).
BatchAudit ==
  /\ bpc = "loop"
  /\ idx < Len(files)
  /\ sent' = Append(sent, Event("progress",
                                [current  |-> idx + 1,
                                 total    |-> Len(files),
                                 filename |-> files[idx + 1].filename]))
  /\ inflight' = inflight \cup {idx}
  /\ calls' = Append(calls, idx)
  /\ bpc' = "await"
  /\ code' = files[idx + 1].code
  /\ filename' = files[idx + 1].filename
  /\ upstream' = files[idx + 1].chunks
  /\ delivered' = <<>>
  /\ pc' = "start"
  /\ language' = "unknown"
  /\ lines' = 0
  /\ fullResponse' = <<>>
  /\ observed' = <<>>
  /\ jsonMatch' = <<>>
  /\ jsonStr' = <<>>
  /\ cleaned' = <<>>
  /\ cleanedSet' = FALSE
  /\ parsed' = Undefined
  /\ parseCalls' = 0
  /\ report' = Undefined
  /\ error' = NoError
  /\ UNCHANGED <<files, idx, reports, status, ended, comparison>>
  /\ UNCHANGED <<pdfVars, otherVars>>

\* Lines 400-402: the call returned a report.
BatchItemDone ==
  /\ bpc = "await"
  /\ pc = "returned"
  /\ reports' = Append(reports, report)
  /\ sent' = Append(sent, Event("partial",
                                [index    |-> idx,
                                 filename |-> filename,
                                 score    |-> WireValue(report.score),
                                 risk     |-> WireValue(report.overallRisk)]))
  /\ inflight' = Settle(inflight, idx)
  /\ idx' = idx + 1
  /\ bpc' = "loop"
  /\ UNCHANGED <<files, status, ended, comparison, calls>>
  /\ UNCHANGED auditVars
  /\ UNCHANGED <<pdfVars, otherVars>>

\* Lines 403-409: the call threw.
BatchItemFailed ==
  /\ bpc = "await"
  /\ pc = "thrown"
  /\ sent' = Append(sent, Event("partial_error",
                                [index    |-> idx,
                                 filename |-> filename,
                                 error    |-> error]))
  /\ inflight' = Settle(inflight, idx)
  /\ idx' = idx + 1
  /\ bpc' = "loop"
  /\ UNCHANGED <<files, reports, status, ended, comparison, calls>>
  /\ UNCHANGED auditVars
  /\ UNCHANGED <<pdfVars, otherVars>>

\* Lines 412-415: the loop is over and no audit succeeded.
BatchExhausted ==
  /\ bpc = "loop"
  /\ idx >= Len(files)
  /\ NoneSucceeded(reports)
  /\ sent' = Append(sent, Event("error", [message |-> "All audits failed"]))
  /\ ended' = TRUE
  /\ bpc' = "done"
  /\ UNCHANGED <<files, idx, reports, status, comparison, inflight, calls>>
  /\ UNCHANGED auditVars
  /\ UNCHANGED <<pdfVars, otherVars>>

\* Lines 417-421: the loop is over, some audit succeeded, and
\* buildComparison(reports) throws.  The call stands outside every try, so
\* the promise of the handler rejects: nothing more is written and the
\* handler does not call res.end().
BatchComparisonFails ==
  /\ bpc = "loop"
  /\ idx >= Len(files)
  /\ ~NoneSucceeded(reports)
  /\ ComparisonThrows(reports)
  /\ bpc' = "rejected"
  /\ UNCHANGED <<files, idx, reports, sent, status, ended, comparison, inflight,
                 calls>>
  /\ UNCHANGED auditVars
  /\ UNCHANGED <<pdfVars, otherVars>>

\* Lines 417-426: the loop is over, some audit succeeded, and the comparison
\* was built.
BatchEmit ==
  /\ bpc = "loop"
  /\ idx >= Len(files)
  /\ ~NoneSucceeded(reports)
  /\ ~ComparisonThrows(reports)
  /\ \E now \in Clock, c \in buildComparison(reports) :
       /\ comparison' = c
       /\ reports' = ReportsAfterComparison(reports)
       /\ sent' = sent \o
            <<Event("batch_report", BatchReportOf(now, files, reports', c)),
              Event("done", <<>>)>>
  /\ ended' = TRUE
  /\ bpc' = "done"
  /\ UNCHANGED <<files, idx, status, inflight, calls>>
  /\ UNCHANGED auditVars
  /\ UNCHANGED <<pdfVars, otherVars>>

BatchNext ==
  \/ BatchReject
  \/ BatchOpen
  \/ BatchAudit
  \/ BatchItemDone
  \/ BatchItemFailed
  \/ BatchExhausted
  \/ BatchComparisonFails
  \/ BatchEmit
  \/ Start
  \/ CreateStream
  \/ CreateFail
  \/ StreamChunk
  \/ StreamFail
  \/ StreamEnd
  \/ Locate
  \/ Sanitize
  \/ Parse
  \/ Cleanup
  \/ RetryParse
  \/ Assemble

BatchSpec == BatchInit /\ [][BatchNext]_vars

\* The events of the given name written so far, in order.
EventsNamed(name) == SelectSeq(sent, LAMBDA e : e.event = name)

\* The batch request has been answered in full.
BatchDone == bpc = "done" /\ Len(files) >= MinBatch

\* The handler of the batch request is over: it returned, or its promise
\* rejected.
BatchFinished == bpc \in {"done", "rejected"} /\ Len(files) >= MinBatch

\* C12: when the handler is over with a batch of n files, every file was
\* audited, in order, whatever failed before it: the audits that succeeded
\* (k) and those that failed make n; and the batch report emitted for
\* k >= 1 has k reports and totalContracts = n.
C12_FailuresDoNotAbort ==
  BatchFinished =>
    LET k == Len(EventsNamed("partial"))
        f == Len(EventsNamed("partial_error"))
    IN  /\ k + f = Len(files)
        /\ calls = [j \in 1..Len(files) |-> j - 1]
        /\ \A j \in 1..Len(files) :
             \E e \in {sent[m] : m \in 1..Len(sent)} :
               e.event \in {"partial", "partial_error"} /\ e.data.index = j - 1
        /\ Len(EventsNamed("batch_report")) <= 1
        /\ Len(EventsNamed("batch_report")) = 1 =>
             /\ k >= 1
             /\ Len(EventsNamed("batch_report")[1].data.reports) = k
             /\ EventsNamed("batch_report")[1].data.totalContracts = Len(files)

\* A batch of three files whose second audit failed in extraction and whose
\* first and third succeeded, answered with a report of two.
C12_Witness ==
  /\ BatchDone
  /\ Len(files) = 3
  /\ sent[2].event = "partial"
  /\ sent[4].event = "partial_error"
  /\ sent[4].data.error.kind = "extraction"
  /\ sent[6].event = "partial"
  /\ sent[7].event = "batch_report"
  /\ Len(sent[7].data.reports) = 2
  /\ sent[7].data.totalContracts = 3

\* C13: a batch report is written only if some audit succeeded; a finished
\* batch has its response ended, with the error event and no batch report
\* if every audit failed, and with one batch report and no error event
\* otherwise.
C13_WholesaleFailure ==
  /\ Len(EventsNamed("batch_report")) > 0 =>
       Len(EventsNamed("partial")) > 0 /\ Len(reports) > 0
  /\ BatchFinished =>
       /\ ended
       /\ IF Len(EventsNamed("partial")) = 0
          THEN /\ Len(EventsNamed("error")) = 1
               /\ sent[Len(sent)].event = "error"
               /\ Len(EventsNamed("batch_report")) = 0
               /\ comparison = Undefined
          ELSE /\ Len(EventsNamed("error")) = 0
               /\ Len(EventsNamed("batch_report")) = 1

\* C13, the part that holds: no batch report without a success, and a
\* batch whose audits all failed ends with the error event alone.
C13_AllFailed ==
  /\ Len(EventsNamed("batch_report")) > 0 =>
       Len(EventsNamed("partial")) > 0 /\ Len(reports) > 0
  /\ (BatchFinished /\ Len(EventsNamed("partial")) = 0) =>
       /\ ended
       /\ Len(EventsNamed("error")) = 1
       /\ sent[Len(sent)].event = "error"
       /\ Len(EventsNamed("batch_report")) = 0
       /\ comparison = Undefined

\* The audits of the batch that have settled, with a report or an error.
SettledCount == Len(EventsNamed("partial")) + Len(EventsNamed("partial_error"))

\* C14: at most one call of auditContract is pending; the calls made are
\* those for the indices 0, 1, 2, ... in order, each once; a call is made
\* only when every earlier one has settled, and auditContract runs only for
\* the pending index.
C14_StrictlySequential ==
  /\ Cardinality(inflight) <= 1
  /\ Len(calls) <= Len(files)
  /\ calls = [j \in 1..Len(calls) |-> j - 1]
  /\ Len(calls) = SettledCount + Cardinality(inflight)
  /\ inflight # {} => inflight = {Len(calls) - 1} /\ idx = Len(calls) - 1
  /\ (bpc # "idle" /\ pc \notin {"idle", "returned", "thrown"}) =>
       /\ inflight = {idx}
       /\ filename = files[idx + 1].filename
       /\ code = files[idx + 1].code

\* The third audit of a batch is under way, its stream open, after the first
\* failed and the second succeeded.
C14_Witness ==
  /\ bpc = "await"
  /\ pc = "stream"
  /\ inflight = {2}
  /\ calls = <<0, 1, 2>>
  /\ Len(sent) = 5
  /\ sent[2].event = "partial_error"
  /\ sent[4].event = "partial"

\* C17: reports holds the reports of the audits that succeeded, in the order
\* of their files, whatever their scores; and the batch report written after
\* the comparison was built holds them in that order and as they were.
C17_ReportsInInputOrder ==
  LET ok == EventsNamed("partial")
  IN  /\ bpc # "idle" =>
           /\ Len(reports) = Len(ok)
           /\ \A j \in 1..Len(ok) :
                /\ reports[j].contractName = ContractName(files[ok[j].data.index + 1].filename)
                /\ WireValue(reports[j].score) = ok[j].data.score
           /\ \A j \in 1..(Len(ok) - 1) : ok[j].data.index < ok[j + 1].data.index
      /\ Len(EventsNamed("batch_report")) > 0 =>
           EventsNamed("batch_report")[1].data.reports = WireReports(reports)

\* A batch report whose reports stand in input order, scores 70 and then
\* 20, while the ranking built from them has 20 first.
C17_Witness ==
  /\ BatchDone
  /\ Len(EventsNamed("batch_report")) = 1
  /\ Len(reports) = 2
  /\ reports[1].score = Num(70)
  /\ reports[2].score = Num(20)
  /\ comparison.riskRanking[1].score = Num(20)
  /\ EventsNamed("batch_report")[1].data.reports[1].score = Num(70)

\* Whether the score a is a number not above the number b.
ScoreAtMost(a, b) ==
  /\ a.t \in {"num", "dec", "inf"}
  /\ b.t \in {"num", "dec", "inf"}
  /\ ~NumberLess(b, a)

\* C15: the risk ranking of a comparison has one entry for each report, is
\* sorted ascending by score, and mostVulnerable and safest are the names of
\* its first and last entries.
C15_RankingSortedAscending ==
  comparison # Undefined =>
    LET rr == comparison.riskRanking
    IN  /\ Len(rr) = Len(reports)
        /\ \A e \in {rr[i] : i \in 1..Len(rr)} \cup
                    {RankingEntries(reports)[i] : i \in 1..Len(reports)} :
             Cardinality({i \in 1..Len(rr) : rr[i] = e}) =
               Cardinality({i \in 1..Len(reports) : RankingEntries(reports)[i] = e})
        /\ \A i, j \in 1..Len(rr) : i < j => ScoreAtMost(rr[i].score, rr[j].score)
        /\ comparison.mostVulnerable = rr[1].contractName
        /\ comparison.safest = rr[Len(rr)].contractName

\* The categories of the findings fs, in the order of the findings.
CategoriesOf(fs) == [i \in 1..Len(fs) |-> GetProperty(fs[i], KeyCategory).v]

\* The common categories the comparison of the reports rs should list: the
\* categories of all findings with their numbers of occurrences, by
\* descending number and, among equal numbers, by the place of the first
\* occurrence, cut to five.
ExpectedCommonCategories(rs) ==
  LET cats     == CategoriesOf(AllFindings(rs))
      distinct == {cats[i] : i \in 1..Len(cats)}
      count(c) == Cardinality({i \in 1..Len(cats) : cats[i] = c})
      first(c) == CHOOSE i \in 1..Len(cats) :
                    cats[i] = c /\ \A j \in 1..(i - 1) : cats[j] # c
      rank(c)  == 1 + Cardinality({d \in distinct :
                                     \/ count(d) > count(c)
                                     \/ count(d) = count(c) /\ first(d) < first(c)})
  IN  [r \in 1..Min(CommonLimit, Cardinality(distinct)) |->
         LET c == CHOOSE d \in distinct : rank(d) = r
         IN  [category |-> c, count |-> Num(count(c))]]

\* C16: commonCategories lists at most five categories with their exact
\* numbers of occurrences over all findings of the reports, by descending
\* number, categories of equal number in the order in which they were first
\* met.
C16_CommonCategories ==
  comparison # Undefined =>
    /\ Len(comparison.commonCategories) <= CommonLimit
    /\ comparison.commonCategories = ExpectedCommonCategories(reports)

\* The text a chunk of the given content adds to the buffer: none if the
\* content is missing or null.
TextOf(content) == IF content.t = "str" THEN content.v ELSE <<>>

\* The texts of the chunks delivered so far, in arrival order.
DeliveredTexts == [i \in 1..Len(delivered) |-> TextOf(delivered[i].content)]

\* C18: the buffer is the concatenation of the fragments delivered, in
\* arrival order; the observer has been called once for each non-empty
\* fragment, with it, in arrival order, when the buffer already ended with
\* it, and for no empty or missing fragment; extraction starts only when
\* the stream has been read to its end.
C18_BufferAndObserver ==
  /\ fullResponse = Flatten(DeliveredTexts)
  /\ observed = SelectSeq(DeliveredTexts, LAMBDA t : Len(t) > 0)
  /\ \A i \in 1..Len(delivered) :
       IF Len(DeliveredTexts[i]) > 0
       THEN delivered[i].seen = Str(Flatten(SubSeq(DeliveredTexts, 1, i)))
       ELSE delivered[i].seen = Undefined
  /\ pc \in {"start", "create"} => delivered = <<>> /\ fullResponse = <<>>
  /\ LocateRan \/ pc = "locate" => upstream = <<>>

\* A stream of five chunks, two of them without content and one with the
\* empty text, read to its end: the observer was called twice.
C18_Witness ==
  /\ pc = "locate"
  /\ Len(delivered) = 5
  /\ delivered[2].content = Undefined
  /\ delivered[3].content = Str(<<>>)
  /\ delivered[5].content = Null
  /\ observed = <<<<"{">>, <<"}">>>>
  /\ fullResponse = <<"{", "}">>

\* C19: an audit that failed in the transport, at the creation of the stream
\* or after any number of fragments, has no report and ran no extraction,
\* repair, parse or assembly on what it had accumulated; and nothing of
\* those runs while the stream has fragments left.
C19_TransportFailurePropagates ==
  /\ (pc = "thrown" /\ (upstream # <<>> \/ error.kind = "transport")) =>
       /\ error = TransportError
       /\ report = Undefined
       /\ jsonMatch = <<>>
       /\ jsonStr = <<>>
       /\ ~cleanedSet
       /\ parsed = Undefined
       /\ parseCalls = 0
  /\ (bpc = "idle" /\ upstream # <<>>) =>
       \/ pc \in {"start", "create", "stream"}
       \/ pc = "thrown" /\ error.kind = "transport"

\* An audit that failed in the transport in the middle of the stream, with
\* a buffer that already held an object and a fragment yet to come.
C19_Witness ==
  /\ pc = "thrown"
  /\ error.kind = "transport"
  /\ fullResponse = <<"{", "}">>
  /\ Len(delivered) > 0
  /\ upstream # <<>>
  /\ report = Undefined

\* ---------------------------------------------------------------------
\* generatePDF (pdf.ts): the layout of the finding cards.
\* Lengths are in hundredths of a point, so that the height of an A4 page,
\* 841.89 points, is a whole number.

\* n points
Pt(n) == n * 100

\* doc.page.height of an A4 page
PageHeight == 84189

\* const PAGE_BOTTOM = doc.page.height - 60 (line 167)
PAGE_BOTTOM == PageHeight - Pt(60)

\* let y = 92 (line 166)
FirstPageTop == Pt(92)

\* y = 40 (line 182)
NextPageTop == Pt(40)

\* The characters the estimate counts for one line (lines 174-175)
LineWidth == 90

\* The height the estimate counts for one line (line 176)
LineHeight == 13

\* Math.ceil(n / d) for n >= 0 and d > 0
CeilDiv(n, d) == (n + d - 1) \div d

\* A variant of descLines that takes the remainder for the quotient.
descLinesByRemainder(f) == (f.description % LineWidth) + 1

\* const descLines = Math.ceil(f.description.length / 90) + 1 (line 174)
descLines(f) == CeilDiv(f.description, LineWidth) + 1

\* const recLines = Math.ceil(f.recommendation.length / 90) + 1 (line 175)
recLines(f) == CeilDiv(f.recommendation, LineWidth) + 1

\* A variant of cardH that counts the line of the location.
cardHWithLocation(f) ==
  Pt(16 + 20 + descLines(f) * LineHeight + 8 + recLines(f) * LineHeight
     + (IF f.codeSnippet > 0 THEN 28 ELSE 0) + 20
     + (IF f.location > 0 THEN 14 ELSE 0))

\* const cardH = 16 + 20 + descLines * 13 + 8 + recLines * 13
\*               + (f.codeSnippet ? 28 : 0) + 20 (line 176)
cardH(f) ==
  Pt(16 + 20 + descLines(f) * LineHeight + 8 + recLines(f) * LineHeight
     + (IF f.codeSnippet > 0 THEN 28 ELSE 0) + 20)

\* A variant of NeedsNewPage that looks at the top of the card only.
NeedsNewPageByTop(top, h) == top > PAGE_BOTTOM

\* The y of the description text of a card drawn at top: headerY + 16 + 16,
\* 14 more with a location, 11 more for the label (lines 191, 205-215)
descriptionTop(f, top) ==
  top + Pt(12) + Pt(16 + 16) + (IF f.location > 0 THEN Pt(14) ELSE 0) + Pt(11)

\* The y of the code snippet box: bodyY += descLines * 13 + 2 (line 218)
snippetTop(f, top) == descriptionTop(f, top) + Pt(descLines(f) * LineHeight + 2)

\* The y of the recommendation text: 26 more with a snippet, 11 more for the
\* label (lines 221-231)
recommendationTop(f, top) ==
  snippetTop(f, top) + (IF f.codeSnippet > 0 THEN Pt(26) ELSE 0) + Pt(11)

\* if (y + cardH > PAGE_BOTTOM) (line 178)
NeedsNewPage(top, h) == top + h > PAGE_BOTTOM

\* The longest description of the reports rendered
MaxDescription == 4600

\* The most findings of the reports rendered
MaxCards == 3

\* The lengths of the descriptions: empty, a little over one line, half the
\* longest, the longest.
DescriptionLengths == {0, LineWidth + 1, MaxDescription \div 2, MaxDescription}

\* The lengths of the recommendations
RecommendationLengths == {0, MaxDescription \div 2}

\* The findings of the reports rendered, each by the lengths of its
\* description, of its recommendation, of its code snippet and of its
\* location (0 for a finding without one).
CardFindings ==
  [description : DescriptionLengths,
   recommendation : RecommendationLengths,
   codeSnippet : {0, 1},
   location : {0}]
  \cup
  [description : {0, MaxDescription \div 2},
   recommendation : {0},
   codeSnippet : {0, 1},
   location : {1}]

\* The y of the footer text of the cover page: doc.page.height - 46
\* (lines 150-153)
CoverFooterY == PageHeight - Pt(46)

\* The y of the footer text of the last page: doc.page.height - 36
\* (lines 265-268)
LastFooterY == PageHeight - Pt(36)

\* A report is handed to generatePDF.
PdfInit ==
  /\ cards \in SeqsUpTo(CardFindings, MaxCards)
  /\ ppc = "cover"
  /\ findingIdx = 0
  /\ yPos = 0
  /\ page = 1
  /\ drawn = <<>>
  /\ footers = <<>>
  /\ NoBatch
  /\ NoOther
  /\ code = <<>>
  /\ filename = Undefined
  /\ upstream = <<>>
  /\ delivered = <<>>
  /\ pc = "idle"
  /\ language = "unknown"
  /\ lines = 0
  /\ fullResponse = <<>>
  /\ observed = <<>>
  /\ jsonMatch = <<>>
  /\ jsonStr = <<>>
  /\ cleaned = <<>>
  /\ cleanedSet = FALSE
  /\ parsed = Undefined
  /\ parseCalls = 0
  /\ report = Undefined
  /\ error = Undefined

\* Lines 57-167: the cover page, then the first findings page and its header.
PdfCover ==
  /\ ppc = "cover"
  /\ page' = page + 1
  /\ yPos' = FirstPageTop
  /\ ppc' = "cards"
  /\ footers' = Append(footers, [page |-> page, y |-> CoverFooterY])
  /\ UNCHANGED <<cards, findingIdx, drawn>>
  /\ UNCHANGED <<auditVars, batchVars, otherVars>>

\* Lines 169-236: one iteration of the loop over the findings: the estimate,
\* the page break if the card does not fit, the card, the advance of y.
PdfCard ==
  /\ ppc = "cards"
  /\ findingIdx < Len(cards)
  /\ LET f == cards[findingIdx + 1]
         h == cardH(f)
         broke == NeedsNewPage(yPos, h)
         top == IF broke THEN NextPageTop ELSE yPos
     IN /\ page' = IF broke THEN page + 1 ELSE page
        /\ drawn' = Append(drawn, [page |-> page', y |-> top, cardH |-> h,
                                   from |-> yPos, pageBefore |-> page])
        /\ yPos' = top + h + Pt(10)
  /\ findingIdx' = findingIdx + 1
  /\ UNCHANGED <<cards, ppc, footers>>
  /\ UNCHANGED <<auditVars, batchVars, otherVars>>

\* Lines 238-270: the analysis page and the end of the document.
PdfAnalysis ==
  /\ ppc = "cards"
  /\ findingIdx = Len(cards)
  /\ page' = page + 1
  /\ ppc' = "ended"
  /\ footers' = Append(footers, [page |-> page', y |-> LastFooterY])
  /\ UNCHANGED <<cards, findingIdx, yPos, drawn>>
  /\ UNCHANGED <<auditVars, batchVars, otherVars>>

PdfNext ==
  \/ PdfCover
  \/ PdfCard
  \/ PdfAnalysis

PdfSpec == PdfInit /\ [][PdfNext]_vars

\* C20: every card drawn lies above the bottom line of its page: its top
\* plus its estimated height is at most the page height less 60 points,
\* whatever the lengths of the description and of the recommendation.
C20_CardsNeverSplit ==
  \A k \in 1..Len(drawn) : drawn[k].y + drawn[k].cardH <= PAGE_BOTTOM

\* The same for the reports whose cards are each at most as high as the
\* space of a continuation page.
C20_CardsThatFitAPage ==
  (\A k \in 1..Len(cards) : NextPageTop + cardH(cards[k]) <= PAGE_BOTTOM)
    => C20_CardsNeverSplit

\* A page break made for a card that fits the new page.
C20_BreakReached ==
  \E k \in 1..Len(drawn) :
    /\ k > 1
    /\ drawn[k].page > drawn[k - 1].page
    /\ drawn[k].y + drawn[k].cardH <= PAGE_BOTTOM

\* C21: in the loop over the findings, each card starts from the y the
\* previous card left (92 for the first, the previous top plus its height
\* plus 10 otherwise); a page break is made for it exactly when that y plus
\* its estimated height exceeds the page height less 60; the break comes
\* before the card, which is then drawn on the new page at y = 40; no card
\* takes more than one break.
C21_BreakIffOverflow ==
  /\ \A k \in 1..Len(drawn) :
       LET d == drawn[k]
       IN /\ d.cardH = cardH(cards[k])
          /\ d.from = IF k = 1 THEN Pt(92)
                      ELSE drawn[k - 1].y + drawn[k - 1].cardH + Pt(10)
          /\ d.pageBefore = IF k = 1 THEN 2 ELSE drawn[k - 1].page
          /\ IF d.from + d.cardH > PageHeight - Pt(60)
             THEN d.page = d.pageBefore + 1 /\ d.y = Pt(40)
             ELSE d.page = d.pageBefore /\ d.y = d.from
  /\ (ppc \in {"cards", "ended"} /\ Len(drawn) > 0) =>
       yPos = drawn[Len(drawn)].y + drawn[Len(drawn)].cardH + Pt(10)
  /\ ppc \in {"cards", "ended"} => Len(drawn) = findingIdx

\* Three cards: the second took a page break, the third followed it on the
\* same page.
C21_Witness ==
  /\ Len(drawn) = 3
  /\ drawn[1].page = 2
  /\ drawn[1].y = Pt(92)
  /\ drawn[2].page = 3
  /\ drawn[2].y = Pt(40)
  /\ drawn[3].page = 3
  /\ drawn[3].y = drawn[2].y + drawn[2].cardH + Pt(10)

\* ---------------------------------------------------------------------
\* The height estimate of generatePDF as a function of the finding.

\* The lengths of the texts of the findings estimated: around the width of
\* a line, and the lengths 50 and 900.
EstimateLengths == {0, 1, 50, LineWidth - 1, LineWidth, LineWidth + 1, 900}

\* The findings estimated
EstimateFindings ==
  [description : EstimateLengths,
   recommendation : {0, 50, LineWidth + 1},
   codeSnippet : {0, 1},
   location : {0, 1}]

\* Two findings are to be estimated.
EstimateInit ==
  /\ cards \in [1..2 -> EstimateFindings]
  /\ ppc = "estimate"
  /\ findingIdx = 0
  /\ yPos = 0
  /\ page = 0
  /\ drawn = <<>>
  /\ footers = <<>>
  /\ NoOther
  /\ NoBatch
  /\ code = <<>>
  /\ filename = Undefined
  /\ upstream = <<>>
  /\ delivered = <<>>
  /\ pc = "idle"
  /\ language = "unknown"
  /\ lines = 0
  /\ fullResponse = <<>>
  /\ observed = <<>>
  /\ jsonMatch = <<>>
  /\ jsonStr = <<>>
  /\ cleaned = <<>>
  /\ cleanedSet = FALSE
  /\ parsed = Undefined
  /\ parseCalls = 0
  /\ report = Undefined
  /\ error = Undefined

\* Lines 174-176 for each of the two findings.
EstimateCards ==
  /\ ppc = "estimate"
  /\ estimated' = [k \in 1..Len(cards) |-> cardH(cards[k])]
  /\ ppc' = "estimated"
  /\ UNCHANGED <<cards, findingIdx, yPos, page, drawn, footers>>
  /\ UNCHANGED <<badgeScore, scoreColor, chunkCount, epc, ends, submitted, rendered,
                 response, mpc>>
  /\ UNCHANGED <<auditVars, batchVars>>

EstimateNext == EstimateCards

EstimateSpec == EstimateInit /\ [][EstimateNext]_vars

\* Two findings that differ at most in the field given
SameBut(a, b, field) ==
  \A g \in {"description", "recommendation", "codeSnippet", "location"} \ {field} :
    a[g] = b[g]

\* C22: of two findings alike but for the description, or but for the
\* recommendation, the one with the longer text has an estimate at least as
\* high; a description of 900 characters gets a strictly higher estimate than
\* one of 50, both with a recommendation of 50; a code snippet adds 28 points
\* whatever the rest.
C22_EstimateMonotone ==
  ppc = "estimated" =>
    LET a == cards[1]
        b == cards[2]
    IN /\ (SameBut(a, b, "description") /\ a.description <= b.description)
            => estimated[1] <= estimated[2]
       /\ (SameBut(a, b, "recommendation") /\ a.recommendation <= b.recommendation)
            => estimated[1] <= estimated[2]
       /\ (SameBut(a, b, "description") /\ a.description = 900
           /\ b.description = 50 /\ a.recommendation = 50)
            => estimated[1] > estimated[2]
       /\ (SameBut(a, b, "codeSnippet") /\ a.codeSnippet > 0 /\ b.codeSnippet = 0)
            => estimated[1] = estimated[2] + Pt(28)

\* The findings of 900 and of 50 characters of description, estimated: eleven
\* lines against two.
C22_Witness ==
  /\ ppc = "estimated"
  /\ SameBut(cards[1], cards[2], "description")
  /\ cards[1].description = 900
  /\ cards[2].description = 50
  /\ cards[1].recommendation = 50
  /\ estimated[1] = estimated[2] + Pt(9 * LineHeight)

\* C23: a finished document has exactly one footer, and it is on the last
\* page: none on the cover page, none on a findings page.
C23_FooterOnlyOnLastPage ==
  ppc = "ended" =>
    /\ Len(footers) = 1
    /\ \A k \in 1..Len(footers) : footers[k].page = page

\* The footers of a finished document with cards: the one of the last page
\* and none on a findings page.
C23_NoFooterOnFindingsPages ==
  ppc = "ended" =>
    /\ \A k \in 1..Len(footers) : footers[k].page \in {1, page}
    /\ Len(SelectSeq(footers, LAMBDA ft : ft.page = page)) = 1

\* The y below the last line of the recommendation of a card drawn at top,
\* with the lines of the estimate: 13 points for every 90 characters.
BodyBottom(f, top) ==
  recommendationTop(f, top) + Pt(CeilDiv(f.recommendation, LineWidth) * LineHeight)

\* The finding f with the location of the given length
WithLocation(f, n) == [f EXCEPT !.location = n]

\* C30: the estimate and the page break of a card are those of the same
\* finding with and without a location, while with a location the
\* description, the snippet and the recommendation are each drawn 14 points
\* lower; without a location the body ends within y + cardH.
C30_LocationNotEstimated ==
  \A k \in 1..Len(drawn) :
    LET bare == WithLocation(cards[k], 0)
        placed == WithLocation(cards[k], 1)
        d == drawn[k]
    IN /\ d.cardH = cardH(bare)
       /\ d.cardH = cardH(placed)
       /\ NeedsNewPage(d.from, cardH(bare)) = NeedsNewPage(d.from, cardH(placed))
       /\ (d.page > d.pageBefore) = NeedsNewPage(d.from, cardH(bare))
       /\ descriptionTop(placed, d.y) = descriptionTop(bare, d.y) + Pt(14)
       /\ snippetTop(placed, d.y) = snippetTop(bare, d.y) + Pt(14)
       /\ recommendationTop(placed, d.y) = recommendationTop(bare, d.y) + Pt(14)
       /\ BodyBottom(bare, d.y) <= d.y + d.cardH
       /\ BodyBottom(placed, d.y) = BodyBottom(bare, d.y) + Pt(14)

\* A card with a location whose recommendation ends below y + cardH.
C30_Witness ==
  \E k \in 1..Len(drawn) :
    /\ cards[k].location > 0
    /\ cards[k].description > 0
    /\ BodyBottom(cards[k], drawn[k].y) > drawn[k].y + drawn[k].cardH

\* ---------------------------------------------------------------------
\* The colour of the score badge of the cover page (pdf.ts lines 126-127).

\* a >= n for the integer n: false where a converts to NaN, and the
\* TypeError where the conversion of a throws.
NotBelow(x, n) ==
  IF x.t = "throw" THEN x ELSE x.t # "nan" /\ ~NumberLess(x, Num(n))

AtLeast(a, n) == NotBelow(ToNumber(a), n)

\* a > n for the integer n
Beyond(x, n) ==
  IF x.t = "throw" THEN x ELSE x.t # "nan" /\ NumberLess(Num(n), x)

Above(a, n) == Beyond(ToNumber(a), n)

\* A variant of ScoreColor with strict comparisons.
ScoreColorStrict(s) ==
  IF ToPrimitiveThrows(s) THEN TypeErrorThrown
  ELSE IF Above(s, 80) THEN "#4ade80"
  ELSE IF Above(s, 60) THEN "#f5c542"
  ELSE IF Above(s, 40) THEN "#ff7d3b"
  ELSE "#ff4d6a"

\* report.score >= 80 ? C.low : report.score >= 60 ? C.medium
\*   : report.score >= 40 ? C.high : C.critical (line 126); the first
\* comparison converts the score, and throws if the conversion does.
ScoreColor(s) ==
  IF ToPrimitiveThrows(s) THEN TypeErrorThrown
  ELSE IF AtLeast(s, 80) THEN "#4ade80"
  ELSE IF AtLeast(s, 60) THEN "#f5c542"
  ELSE IF AtLeast(s, 40) THEN "#ff7d3b"
  ELSE "#ff4d6a"

\* The Number n / 10
Tenth(n) == Finite(FALSE, ToDigits(n), Len(ToDigits(n)) - 1)

\* The scores of the reports: 0, 0.1, ... up to 100, some Numbers out of
\* that range, and undefined and null.
BadgeScores ==
  {Tenth(n) : n \in 0..(10 * 100)}
    \cup {Num(-1), Num(101), Inf(FALSE), Inf(TRUE), NaN, Undefined, Null}

\* Scores that are strings, arrays or objects, the last two of them
\* objects that cannot be converted.
BadgeObjects ==
  <<Str(<<"8", "0">>), Str(<<"1", "e", "2">>), Str(<<"a">>),
    Arr(<<Num(80)>>), Obj(<<>>),
    Obj(<<[k |-> KeyValueOf, v |-> Num(90)]>>),
    Obj(<<[k |-> KeyToString, v |-> Num(90)]>>),
    Arr(<<Obj(<<[k |-> KeyToString, v |-> Null]>>)>>)>>

\* A report with its score is about to get its badge.
BadgeInit ==
  /\ \/ badgeScore \in BadgeScores
     \/ \E i \in 1..Len(BadgeObjects) : badgeScore = BadgeObjects[i]
  /\ ppc = "badge"
  /\ estimated = <<>>
  /\ scoreColor = ""
  /\ chunkCount = 0
  /\ epc = "idle"
  /\ ends = 0
  /\ submitted = Undefined
  /\ rendered = <<>>
  /\ response = Undefined
  /\ mpc = "idle"
  /\ cards = <<>>
  /\ findingIdx = 0
  /\ yPos = 0
  /\ page = 1
  /\ drawn = <<>>
  /\ footers = <<>>
  /\ NoBatch
  /\ code = <<>>
  /\ filename = Undefined
  /\ upstream = <<>>
  /\ delivered = <<>>
  /\ pc = "idle"
  /\ language = "unknown"
  /\ lines = 0
  /\ fullResponse = <<>>
  /\ observed = <<>>
  /\ jsonMatch = <<>>
  /\ jsonStr = <<>>
  /\ cleaned = <<>>
  /\ cleanedSet = FALSE
  /\ parsed = Undefined
  /\ parseCalls = 0
  /\ report = Undefined
  /\ error = Undefined

\* Line 126: the colour of the badge is chosen, or generatePDF throws the
\* TypeError of the conversion of the score.
PdfBadge ==
  /\ ppc = "badge"
  /\ IF ToPrimitiveThrows(badgeScore)
     THEN scoreColor' = scoreColor /\ ppc' = "thrown"
     ELSE scoreColor' = ScoreColor(badgeScore) /\ ppc' = "badged"
  /\ UNCHANGED <<cards, findingIdx, yPos, page, drawn, footers>>
  /\ UNCHANGED <<estimated, badgeScore, chunkCount, epc, ends, submitted, rendered,
                 response, mpc>>
  /\ UNCHANGED <<auditVars, batchVars>>

BadgeNext == PdfBadge

BadgeSpec == BadgeInit /\ [][BadgeNext]_vars

\* Whether v is a Number with lo <= v < hi.
InBand(v, lo, hi) ==
  /\ v.t \in {"num", "dec"}
  /\ ~NumberLess(v, Num(lo))
  /\ NumberLess(v, Num(hi))

\* C29: the badge of a score from 0 to 100 has the colour of low severity
\* from 80 up, of medium from 60 to below 80, of high from 40 to below 60,
\* of critical below 40: one colour for every score, the scores 80, 60 and
\* 40 in the higher band.
C29_ScoreColourBands ==
  ppc = "badged" =>
    /\ scoreColor \in {"#4ade80", "#f5c542", "#ff7d3b", "#ff4d6a"}
    /\ (InBand(badgeScore, 0, 100) \/ badgeScore = Num(100)) =>
         /\ (scoreColor = "#4ade80") = ~NumberLess(badgeScore, Num(80))
         /\ (scoreColor = "#f5c542") = InBand(badgeScore, 60, 80)
         /\ (scoreColor = "#ff7d3b") = InBand(badgeScore, 40, 60)
         /\ (scoreColor = "#ff4d6a") = InBand(badgeScore, 0, 40)

\* The badge of the score 60, in the medium colour.
C29_Witness ==
  /\ ppc = "badged"
  /\ badgeScore = Num(60)
  /\ scoreColor = "#f5c542"

\* The ways to read the text s as a stem, a dot and an extension: the
\* extension is not empty and holds no dot.
Extensions(s) ==
  {i \in 1..Len(s) : /\ s[i] = "."
                     /\ i < Len(s)
                     /\ \A j \in (i + 1)..Len(s) : s[j] # "."}

\* C28: the contractName of a report is the filename without its last
\* extension: the filename itself when it has none, the part before the last
\* dot when it has one; and it is "Unknown Contract" when there is no
\* filename or when nothing is left of it.
C28_ContractNameFromFilename ==
  pc = "returned" =>
    LET name == report.contractName
        placeholder == Str(<<"U", "n", "k", "n", "o", "w", "n", " ",
                             "C", "o", "n", "t", "r", "a", "c", "t">>)
    IN IF filename = Undefined THEN name = placeholder
       ELSE LET s == filename.v
            IN /\ Cardinality(Extensions(s)) <= 1
               /\ Extensions(s) = {} =>
                    name = (IF s = <<>> THEN placeholder ELSE Str(s))
               /\ \A i \in Extensions(s) :
                    name = (IF i = 1 THEN placeholder ELSE Str(SubSeq(s, 1, i - 1)))

\* The report of the file a.b.fc, named a.b.
C28_Witness ==
  /\ pc = "returned"
  /\ filename = Str(<<"a", ".", "b", ".", "f", "c">>)
  /\ report.contractName = Str(<<"a", ".", "b">>)

\* The report of the file .fc, named by the placeholder.
C28_OnlyExtension ==
  /\ pc = "returned"
  /\ filename = Str(<<".", "f", "c">>)
  /\ report.contractName = Str(UnknownContract)

\* The code snippets of the findings of a report: the codeSnippet property
\* of each finding that is an object and has one.
SnippetsOf(rep) ==
  {GetProperty(rep.findings.v[j], KeyCodeSnippet) :
     j \in {i \in 1..Len(rep.findings.v) :
              /\ rep.findings.v[i].t = "obj"
              /\ HasProperty(rep.findings.v[i], KeyCodeSnippet)}}

\* C27: every code snippet of a report returned is a text of at most 120
\* characters without a newline.
C27_SnippetShortAndSingleLine ==
  pc = "returned" =>
    \A sn \in SnippetsOf(report) :
      /\ sn.t = "str"
      /\ Len(sn.v) <= 120
      /\ \A i \in 1..Len(sn.v) : sn.v[i] # LF

\* A report returned with a snippet, of two characters.
C27_SnippetKept ==
  /\ pc = "returned"
  /\ Str(<<"a", "b">>) \in SnippetsOf(report)

\* C25: the events of a batch of n >= 2 files come in this order: for the
\* file i, from the first to the last, its progress event and then its
\* partial or partial_error event; after the 2n events of the files, when an
\* audit succeeded, one batch_report and then one done, which is the last
\* event; the response is then ended.
C25_BatchStreamOrdered ==
  Len(files) >= MinBatch =>
    LET n == Len(files)
    IN /\ Len(sent) <= 2 * n + 2
       /\ \A m \in 1..Len(sent) :
            IF m <= 2 * n /\ m % 2 = 1
            THEN /\ sent[m].event = "progress"
                 /\ sent[m].data.current = (m + 1) \div 2
            ELSE IF m <= 2 * n
            THEN /\ sent[m].event \in {"partial", "partial_error"}
                 /\ sent[m].data.index = (m \div 2) - 1
            ELSE IF m = 2 * n + 1
            THEN /\ sent[m].event \in {"batch_report", "error"}
                 /\ (sent[m].event = "batch_report")
                      = (\E j \in 1..(2 * n) : sent[j].event = "partial")
            ELSE /\ sent[m].event = "done"
                 /\ sent[m - 1].event = "batch_report"
       /\ (bpc \in {"done", "rejected"} /\ Len(EventsNamed("partial")) > 0) =>
            /\ Len(sent) = 2 * n + 2
            /\ Len(EventsNamed("batch_report")) = 1
            /\ Len(EventsNamed("done")) = 1
       /\ ended = (bpc \in {"done", "rejected"})
       /\ Len(EventsNamed("done")) > 0 => ended

\* C25, the part that holds: the events written are a prefix of that
\* order, and done, where it is written, is the last event and ends the
\* response.
C25_PrefixOrdered ==
  Len(files) >= MinBatch =>
    LET n == Len(files)
    IN /\ Len(sent) <= 2 * n + 2
       /\ \A m \in 1..Len(sent) :
            IF m <= 2 * n /\ m % 2 = 1
            THEN /\ sent[m].event = "progress"
                 /\ sent[m].data.current = (m + 1) \div 2
            ELSE IF m <= 2 * n
            THEN /\ sent[m].event \in {"partial", "partial_error"}
                 /\ sent[m].data.index = (m \div 2) - 1
            ELSE IF m = 2 * n + 1
            THEN /\ sent[m].event \in {"batch_report", "error"}
                 /\ (sent[m].event = "batch_report")
                      = (\E j \in 1..(2 * n) : sent[j].event = "partial")
            ELSE /\ sent[m].event = "done"
                 /\ sent[m - 1].event = "batch_report"
       /\ ended = (bpc = "done")
       /\ Len(EventsNamed("done")) > 0 => ended

\* C25, the end of the stream: once the response is ended nothing more is
\* sent.
C25_NothingAfterEnd == [][ended => (sent' = sent /\ ended')]_vars

(***************************************************************************)
(* server.ts: POST /api/report/batch-pdf (lines 449-470)                   *)
(***************************************************************************)

\* The most reports of a request
MaxSubmitted == 3

\* The status of a response whose handler caught an error
ServerError == 500

\* The reports of the requests: each with its name, its score (none for a
\* report without the property) and whether generatePDF can render it; it
\* cannot where the report lacks what generatePDF reads, as
\* report.findings.forEach of pdf.ts line 131 with no findings.
SubmittedReports ==
  [contractName : {"a", "b"},
   score : {Num(10), Finite(FALSE, <<"1", "0", "5">>, 2), Num(70), Undefined},
   complete : BOOLEAN]

\* req.body.reports: not an array, or an array of reports
Submissions ==
  {Undefined} \cup {Arr(rs) : rs \in SeqsUpTo(SubmittedReports, MaxSubmitted)}

\* The bytes that generatePDF(r) resolves to
Rendering(r) == [pdf |-> r]

\* A request has arrived.
MergeInit ==
  /\ submitted \in Submissions
  /\ rendered = <<>>
  /\ response = Undefined
  /\ mpc = "request"
  /\ estimated = <<>>
  /\ badgeScore = Undefined
  /\ scoreColor = ""
  /\ chunkCount = 0
  /\ epc = "idle"
  /\ ends = 0
  /\ NoPdf
  /\ NoBatch
  /\ code = <<>>
  /\ filename = Undefined
  /\ upstream = <<>>
  /\ delivered = <<>>
  /\ pc = "idle"
  /\ language = "unknown"
  /\ lines = 0
  /\ fullResponse = <<>>
  /\ observed = <<>>
  /\ jsonMatch = <<>>
  /\ jsonStr = <<>>
  /\ cleaned = <<>>
  /\ cleanedSet = FALSE
  /\ parsed = Undefined
  /\ parseCalls = 0
  /\ report = Undefined
  /\ error = Undefined

\* Lines 451-453: no array of reports, or an empty one.
MergeReject ==
  /\ mpc = "request"
  /\ IF submitted.t = "arr" THEN Len(submitted.v) = 0 ELSE TRUE
  /\ response' = [status |-> BadRequest, body |-> [error |-> "reports array required"]]
  /\ mpc' = "done"
  /\ UNCHANGED <<submitted, rendered, estimated, badgeScore, scoreColor, chunkCount, epc, ends>>
  /\ UNCHANGED <<auditVars, batchVars, pdfVars>>

\* Line 457, up to the await: generatePDF is called for every report, in
\* order.
MergeRenderAll ==
  /\ mpc = "request"
  /\ submitted.t = "arr"
  /\ Len(submitted.v) > 0
  /\ rendered' = rendered \o submitted.v
  /\ mpc' = "awaitAll"
  /\ UNCHANGED <<submitted, response, estimated, badgeScore, scoreColor, chunkCount,
                 epc, ends>>
  /\ UNCHANGED <<auditVars, batchVars, pdfVars>>

\* The await of line 457 throws, a call of generatePDF having failed: lines
\* 467-469.
MergeAllRejected ==
  /\ mpc = "awaitAll"
  /\ \E i \in 1..Len(submitted.v) : ~submitted.v[i].complete
  /\ response' = [status |-> ServerError, body |-> [error |-> "generatePDF failed"]]
  /\ mpc' = "done"
  /\ UNCHANGED <<submitted, rendered, estimated, badgeScore, scoreColor, chunkCount,
                 epc, ends>>
  /\ UNCHANGED <<auditVars, batchVars, pdfVars>>

\* The await of line 457 returns; lines 460-462, up to the await: a copy of
\* the reports is sorted by score and generatePDF is called for its first
\* report.  Every report is complete here, so every score converts: the
\* conversion that the sort makes is the one that line 126 of pdf.ts made.
MergeSelect ==
  /\ mpc = "awaitAll"
  /\ \A i \in 1..Len(submitted.v) : submitted.v[i].complete
  /\ \E sorted \in SortByScore(submitted.v) :
       rendered' = Append(rendered, sorted[1])
  /\ mpc' = "awaitWorst"
  /\ UNCHANGED <<submitted, response, estimated, badgeScore, scoreColor, chunkCount,
                 epc, ends>>
  /\ UNCHANGED <<auditVars, batchVars, pdfVars>>

\* The await of line 462 returns, with the rendering of the report that
\* generatePDF was last called for, which it has rendered before; lines
\* 463-466: it is sent.
MergeRespond ==
  /\ mpc = "awaitWorst"
  /\ response' = [status |-> OkStatus, body |-> Rendering(rendered[Len(rendered)])]
  /\ mpc' = "done"
  /\ UNCHANGED <<submitted, rendered, estimated, badgeScore, scoreColor, chunkCount,
                 epc, ends>>
  /\ UNCHANGED <<auditVars, batchVars, pdfVars>>

MergeNext ==
  \/ MergeReject
  \/ MergeRenderAll
  \/ MergeAllRejected
  \/ MergeSelect
  \/ MergeRespond

MergeSpec == MergeInit /\ [][MergeNext]_vars

\* The positions of the reports of lowest score that come first among
\* their equals, for reports whose scores are numbers.
FirstLowest(rs) ==
  {i \in 1..Len(rs) :
     /\ \A j \in 1..Len(rs) : ~NumberLess(rs[j].score, rs[i].score)
     /\ \A j \in 1..(i - 1) : NumberLess(rs[i].score, rs[j].score)}

\* Whether the request is an array of at least one report, all with numbers
\* for scores.
Scored(rs) ==
  /\ rs.t = "arr"
  /\ Len(rs.v) > 0
  /\ \A i \in 1..Len(rs.v) : rs.v[i].score.t \in {"num", "dec"}

\* C24: a request of reports with scores is answered with the rendering of
\* the first report of lowest score, and generatePDF was called for that
\* report and for no other.
C24_RendersOneReport ==
  (mpc = "done" /\ Scored(submitted)) =>
    \E i \in FirstLowest(submitted.v) :
      /\ response = [status |-> 200, body |-> Rendering(submitted.v[i])]
      /\ \A k \in 1..Len(rendered) : rendered[k] = submitted.v[i]

\* The part of it that holds: when every report can be rendered, the
\* response is the rendering of the first report of lowest score.
C24_AnswersWithLowest ==
  (mpc = "done" /\ Scored(submitted)
   /\ \A i \in 1..Len(submitted.v) : submitted.v[i].complete) =>
    \E i \in FirstLowest(submitted.v) :
      response = [status |-> 200, body |-> Rendering(submitted.v[i])]

\* A request of three reports, the last two of the lowest score, answered
\* with the rendering of the second.
C24_TieReached ==
  /\ mpc = "done"
  /\ submitted.t = "arr"
  /\ Len(submitted.v) = 3
  /\ submitted.v[1].score = Num(70)
  /\ submitted.v[2].score = Num(10)
  /\ submitted.v[3].score = Num(10)
  /\ submitted.v[2] # submitted.v[3]
  /\ response = [status |-> 200, body |-> Rendering(submitted.v[2])]

\* C24, while the handler waits: no response is written before the awaited
\* calls of generatePDF have settled, and the submitted reports are as many
\* as the first calls.
C24_NoResponseWhileAwaiting ==
  /\ mpc \in {"request", "awaitAll", "awaitWorst"} => response = Undefined
  /\ mpc = "awaitAll" => rendered = submitted.v
  /\ mpc = "awaitWorst" =>
       /\ Len(rendered) = Len(submitted.v) + 1
       /\ SubSeq(rendered, 1, Len(submitted.v)) = submitted.v

(***************************************************************************)
(* server.ts: POST /api/audit (lines 236-276)                              *)
(***************************************************************************)

\* code.trim().length < 10 (line 239)
MinCodeLength == 10

\* code.length > 80000 (line 242)
MaxCodeLength == 80000

\* chunkCount % 10 === 0 (line 263)
ProgressEvery == 10

\* A variant of ProgressDue that reports every chunk.
ProgressAlways(count) == TRUE

\* if (chunkCount % 10 === 0) (line 263)
ProgressDue(count) == count % ProgressEvery = 0

\* !code || code.trim().length < 10, and code.length > 80000 (lines 239-244);
\* a missing code and the empty text are refused alike.
CodeRefused(text) ==
  \/ Len(text) = 0
  \/ Len(Trim(text)) < MinCodeLength
  \/ Len(text) > MaxCodeLength

\* The text of a payload of 22 characters
LongPayload == ObjectText(<<>>, KeySummary, Quoted([i \in 1..8 |-> "a"]))

\* The streams of the requests: a payload in one chunk, one that parses
\* after the cleanup only, the first one character a chunk, ten chunks that hold no object, nine chunks and one
\* without content that do, and no chunk at all.
EndpointStreams ==
  {<<Str(LongPayload)>>,
   <<Str(PayloadNeedsCleanup)>>,
   [i \in 1..Len(LongPayload) |-> Str(<<LongPayload[i]>>)],
   [i \in 1..ProgressEvery |-> Str(<<"x">>)],
   [i \in 1..ProgressEvery |->
      IF i = 1 THEN Str(<<"{">>) ELSE IF i = 2 THEN Undefined
      ELSE IF i = ProgressEvery THEN Str(<<"}">>) ELSE Str(<<" ">>)],
   <<>>}

\* The codes of the requests: none, one too short, one too short once
\* trimmed, and one that passes.
EndpointCodes ==
  {<<>>, <<"a">>, [i \in 1..MinCodeLength |-> IF i = 1 THEN "a" ELSE " "], SampleCode}

\* A request has arrived.
EndpointInit ==
  /\ code \in EndpointCodes
  /\ filename \in {Undefined, Str(<<"a">> \o ExtFc)}
  /\ upstream \in EndpointStreams
  /\ epc = "request"
  /\ ends = 0
  /\ chunkCount = 0
  /\ estimated = <<>>
  /\ badgeScore = Undefined
  /\ scoreColor = ""
  /\ submitted = Undefined
  /\ rendered = <<>>
  /\ response = Undefined
  /\ mpc = "idle"
  /\ NoPdf
  /\ NoBatch
  /\ delivered = <<>>
  /\ pc = "idle"
  /\ language = "unknown"
  /\ lines = 0
  /\ fullResponse = <<>>
  /\ observed = <<>>
  /\ jsonMatch = <<>>
  /\ jsonStr = <<>>
  /\ cleaned = <<>>
  /\ cleanedSet = FALSE
  /\ parsed = Undefined
  /\ parseCalls = 0
  /\ report = Undefined
  /\ error = NoError

\* What the handlers of the other endpoints hold, unchanged.
endpointIdle ==
  <<files, bpc, idx, reports, comparison, inflight, calls, pdfVars, estimated,
    badgeScore, scoreColor, submitted, rendered, response, mpc>>

\* Lines 239-244: the code is refused with status 400.
EndpointReject ==
  /\ epc = "request"
  /\ CodeRefused(code)
  /\ status' = BadRequest
  /\ sent' = Append(sent, Event("json", [error |-> "code"]))
  /\ ended' = TRUE
  /\ ends' = ends + 1
  /\ epc' = "done"
  /\ UNCHANGED <<auditVars, chunkCount, endpointIdle>>

\* Lines 246-260: the event stream is opened, the first status event is
\* sent and auditContract is called.
EndpointOpen ==
  /\ epc = "request"
  /\ ~CodeRefused(code)
  /\ status' = OkStatus
  /\ sent' = Append(sent, Event("status", "Analyzing contract structure"))
  /\ chunkCount' = 0
  /\ epc' = "await"
  /\ pc' = "start"
  /\ UNCHANGED <<code, filename, upstream, delivered, language, lines, fullResponse,
                 observed, jsonMatch, jsonStr, cleaned, cleanedSet, parsed,
                 parseCalls, report, error>>
  /\ UNCHANGED <<ended, ends, endpointIdle>>

\* Lines 143-147 of auditContract with the observer of lines 260-266: on a
\* call it counts the chunk and sends a progress event at every tenth.
EndpointChunk ==
  /\ epc = "await"
  /\ StreamChunkStep
  /\ IF Len(observed') > Len(observed)
     THEN /\ chunkCount' = chunkCount + 1
          /\ sent' = IF ProgressDue(chunkCount')
                     THEN Append(sent, Event("progress", "Running security checks"))
                     ELSE sent
     ELSE UNCHANGED <<chunkCount, sent>>
  /\ UNCHANGED <<status, ended, ends, epc, endpointIdle>>

\* Lines 268-270 and 273-275: the audit returned; the status, the report
\* and done are written and the response is ended.
EndpointSucceeded ==
  /\ epc = "await"
  /\ pc = "returned"
  /\ sent' = sent \o <<Event("status", "Audit complete"),
                       Event("report", WireReport(report)),
                       Event("done", <<>>)>>
  /\ ended' = TRUE
  /\ ends' = ends + 1
  /\ epc' = "done"
  /\ UNCHANGED <<auditVars, status, chunkCount, endpointIdle>>

\* Lines 271-275: the audit threw; the error is written and the response is
\* ended.
EndpointFailed ==
  /\ epc = "await"
  /\ pc = "thrown"
  /\ sent' = Append(sent, Event("error", [message |-> error]))
  /\ ended' = TRUE
  /\ ends' = ends + 1
  /\ epc' = "done"
  /\ UNCHANGED <<auditVars, status, chunkCount, endpointIdle>>

EndpointNext ==
  \/ EndpointReject
  \/ EndpointOpen
  \/ EndpointChunk
  \/ EndpointSucceeded
  \/ EndpointFailed
  \/ Start
  \/ CreateStream
  \/ CreateFail
  \/ StreamFail
  \/ StreamEnd
  \/ Locate
  \/ Sanitize
  \/ Parse
  \/ Cleanup
  \/ RetryParse
  \/ Assemble

EndpointSpec == EndpointInit /\ [][EndpointNext]_vars

\* The names of the events sent, in order
EventNames == [m \in 1..Len(sent) |-> sent[m].event]

\* k progress events
Progresses(k) == [m \in 1..k |-> "progress"]

\* C26: the stream of an accepted request starts with a status event; then
\* come progress events only, one for every ten calls of the observer; a
\* request whose audit returned ends with a status, one report and one done,
\* in this order; one whose audit threw ends with one error and has neither
\* report nor done; either way res.end() was called once, after the last
\* event.
C26_AuditStreamOrdered ==
  (epc \in {"await", "done"} /\ status = OkStatus) =>
    LET k == chunkCount \div 10
    IN /\ chunkCount = Len(observed)
       /\ ends <= 1
       /\ ended = (ends = 1)
       /\ ended = (epc = "done")
       /\ epc = "await" => EventNames = <<"status">> \o Progresses(k)
       /\ (epc = "done" /\ pc = "returned") =>
            EventNames = <<"status">> \o Progresses(k) \o <<"status", "report", "done">>
       /\ (epc = "done" /\ pc # "returned") =>
            /\ pc = "thrown"
            /\ EventNames = <<"status">> \o Progresses(k) \o <<"error">>

\* An audit of 22 chunks that returned: two progress events between the
\* first status and the last three events.
C26_Witness ==
  /\ epc = "done"
  /\ chunkCount = 22
  /\ EventNames = <<"status", "progress", "progress", "status", "report", "done">>
  /\ ends = 1

\* An audit that sent a progress event and then failed.
C26_FailedAfterProgress ==
  /\ epc = "done"
  /\ EventNames = <<"status", "progress", "error">>
  /\ ends = 1

\* C26, the end of the stream: nothing is written once the response is
\* ended, and it is not ended again.
C26_NothingAfterEnd == [][ended => (sent' = sent /\ ends' = ends)]_vars

=============================================================================
